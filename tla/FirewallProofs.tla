--------------------------- MODULE FirewallProofs ---------------------------
(***************************************************************************)
(* Proofs about Firewall, for every set of profiles, every chain at the    *)
(* start and every bound: rules of other programs are neither deleted nor  *)
(* reordered, the port that is served is never open to a stranger, and     *)
(* every report is true of the chain.                                      *)
(*                                                                         *)
(* The commands of a process were computed from the chain as it was when   *)
(* the process read it, and are positions in a chain that each of them     *)
(* changes; rules of other programs may be appended in between.  The       *)
(* inductive invariant ChainInv says, phase by phase, what the commands    *)
(* that are left mean for the chain as it is now.  Its parts rest on       *)
(* lemmas about chains with one rule more or less (Inserted): where        *)
(* positions go, which rules keep their order, and which ports stay        *)
(* closed.                                                                 *)
(***************************************************************************)
EXTENDS Firewall, TLAPS, FiniteSetTheorems, SequenceTheorems

-----------------------------------------------------------------------------
(* What the commands that are left mean for the chain *)

Cand == CandidateRules(new)

(* The commands of a process. *)
Commands == [op : {"insert", "delete", "delete_rule"}, at : Nat, rule : Rules]

(* The chain ch is o with rules of other programs appended. *)
Extends(o, ch) ==
    /\ Len(o) <= Len(ch)
    /\ \A i \in 1..Len(o) : ch[i] = o[i]
    /\ \A i \in Len(o) + 1..Len(ch) : ~IsManaged(ch[i])

(* The candidate is whole, with m rules of other programs above it. *)
Topped(ch, m, cand) ==
    /\ m + Len(cand) <= Len(ch)
    /\ \A i \in 1..m : ~IsManaged(ch[i])
    /\ \A i \in 1..Len(cand) : ch[m + i] = cand[i]

(* The last k rules of the candidate are on top of the chain b. *)
Stacked(ch, k, cand, b) ==
    /\ k \in 0..Len(cand) /\ k + Len(b) <= Len(ch)
    /\ \A i \in 1..k : ch[i] = cand[Len(cand) - k + i]
    /\ \A i \in 1..Len(b) : ch[k + i] = b[i]

(* A rule that lets the stranger in. *)
Opens(rule, p) == rule.tag = "allow" /\ rule.port = p /\ rule.src = Stranger

(* A stranger meets a DROP of the port before it could be let in. *)
Closed(ch, p) ==
    \E i \in DOMAIN ch :
        /\ ch[i].tag = "drop" /\ ch[i].port = p
        /\ \A j \in 1..i - 1 : ~Opens(ch[j], p)

(* q begins with d deletions, of exactly the profile's positions below the *)
(* first n, from the highest down.                                         *)
Deleting(ch, q, n, d) ==
    /\ d \in 0..Len(q)
    /\ \A i \in 1..d :
          /\ q[i] = DeleteCmd(q[i].at) /\ q[i].at \in Own(ch) /\ q[i].at > n
          /\ \A j \in 1..i - 1 : q[j].at > q[i].at
    /\ \A p \in Own(ch) : p > n => \E i \in 1..d : q[i].at = p

(* q begins with the deletion of each of the profile's rules. *)
Clearing(ch, q) ==
    /\ Len(Managed(ch)) <= Len(q)
    /\ \A i \in 1..Len(Managed(ch)) : q[i] = DeleteRuleCmd(Managed(ch)[i])

(* After its first d commands q is r. *)
Followed(q, d, r) ==
    Len(q) = d + Len(r) /\ \A j \in 1..Len(r) : q[d + j] = r[j]

(* q puts in what is missing of the positioned rules f, in ascending       *)
(* order; the rest of f is in place below the first n.                     *)
Filling(ch, q, f, n) ==
    \E t \in 0..Cardinality(DOMAIN f) :
        /\ Followed(InsertPositions(f), t, q)
        /\ Obsolete(ch, n) = [i \in {Nth(DOMAIN f, j) : j \in 1..t} |-> f[i]]

(* q puts the rest of the candidate on top of the chain; the profile's     *)
(* rules in it are the other part.                                         *)
Stacking(ch, q, cand) ==
    \E t \in 0..Len(cand) :
        /\ Followed(InsertOnTop(cand), t, q)
        /\ Len(Managed(ch)) = t
        /\ \A i \in 1..t : Managed(ch)[i] = cand[Len(cand) - t + i]

-----------------------------------------------------------------------------
(* The inductive invariant, part by part *)

TypeInv ==
    /\ chain \in Seq(Rules) /\ before \in Seq(Rules) /\ original \in Seq(Rules)
    /\ foreign \in Seq(Rules) /\ queue \in Seq(Commands)
    /\ kind \in {"edit", "create", "delete"} /\ old \in Configs /\ new \in Configs
    /\ step \in Steps /\ phase \in Phases
    /\ faults \in 0..MaxFaults /\ clean \in BOOLEAN /\ moved \in BOOLEAN

(* Which process may run at which step of the caller. *)
StepInv ==
    /\ phase = "none" => queue = <<>>
    /\ phase \in {"prepare", "undo_prepare"} => step = "begun" /\ Staged
    /\ phase = "finalize" => step = "staged"
    /\ phase \in {"stage_old", "drop_candidate"} =>
          step \in {"staged", "failed", "applied"} /\ Staged
    /\ phase \in {"apply", "put_back"} => step = "begun" /\ ~Staged
    /\ phase \in {"restore", "put_back_restore"} =>
          step \in {"begun", "failed", "applied"} /\ ~Staged
    /\ step \in {"staged", "refused"} => Staged

(* What the snapshot holds, and that other programs only add rules. *)
HistoryInv ==
    /\ foreign = Others(chain)
    /\ Len(Others(original)) <= Len(foreign)
    /\ ~moved => IsPrefix(Others(original), foreign)
    /\ step = "idle" => saved = <<>>
    /\ step # "idle" => saved = ManagedPositions(original)

(* The edits NeverOpen is about. *)
Protected == Staged /\ old.enabled /\ Closed(original, old.port)

(* Between two processes: what each step of the caller says of the chain. *)
NoneInv ==
    phase = "none" =>
        /\ (step \in {"idle", "begun", "refused"} /\ ~moved) => Extends(original, chain)
        /\ (step \in {"staged", "failed", "applied"} /\ Staged) =>
              \E m \in 0..Len(chain) : Topped(chain, m, Cand) /\ (~moved => m = 0)
        /\ step = "applied" => Managed(chain) = Cand
        /\ (step = "restored" /\ ~moved) => ManagedPositions(chain) = saved
        /\ step \in {"failed", "unproven"} => ~clean \/ moved
        /\ (Protected /\ step \notin {"failed", "applied"}
              /\ (step = "unproven" => old.port = new.port)) => Closed(chain, old.port)

(* prepare and its undoing: a part of the candidate is on top of what was  *)
(* read, and the queue is the rest of it, or takes the part off again.     *)
PrepareInv ==
    phase \in {"prepare", "undo_prepare"} =>
        /\ \E k \in 0..Count :
              /\ Stacked(chain, k, Cand, before)
              /\ clean => Len(chain) = k + Len(before)
              /\ phase = "prepare" => Followed(InsertOnTop(Cand), k, queue)
              /\ phase = "undo_prepare" => queue = DeleteTop(k)
        /\ ~moved => Extends(original, before)
        /\ Protected => Closed(before, old.port)

(* finalize: the candidate is on top, and everything else of the profile   *)
(* is to be deleted.                                                       *)
FinalizeInv ==
    phase = "finalize" =>
        Topped(chain, 0, Cand) /\ Deleting(chain, queue, Count, Len(queue))

(* rollback, first part: under the candidate, which stays on top, the      *)
(* profile's rules are deleted and then those of the snapshot put in.      *)
StageInv ==
    phase = "stage_old" =>
        /\ Topped(chain, 0, Cand) /\ Topped(before, 0, Cand)
        /\ \/ \E d \in 0..Len(queue) :
                  /\ Deleting(chain, queue, Count, d)
                  /\ Followed(queue, d, InsertPositions(Shifted(saved, Count)))
           \/ Filling(chain, queue, Shifted(saved, Count), Count)

(* rollback, second part: the candidate is taken off the old rules. *)
DropInv ==
    phase = "drop_candidate" =>
        \E k \in 0..Count :
            /\ queue = DeleteTop(k)
            /\ Stacked(chain, k, Cand, <<>>)
            /\ Obsolete(chain, k) = Shifted(saved, k)

(* mutate: the profile's rules are deleted, then the new ones stacked. *)
ApplyInv ==
    phase = "apply" =>
        \/ Clearing(chain, queue) /\ Followed(queue, Len(Managed(chain)), InsertOnTop(Cand))
        \/ Stacking(chain, queue, Cand)

(* restore: the profile's rules are deleted, then the old ones put in. *)
RestoreInv ==
    phase = "restore" =>
        \/ Clearing(chain, queue) /\ Followed(queue, Len(Managed(chain)), InsertPositions(saved))
        \/ Filling(chain, queue, saved, 0)

(* The undoing of these two promises nothing of the profile's rules; it    *)
(* touches no others.                                                      *)
PutBackInv ==
    phase \in {"put_back", "put_back_restore"} =>
        /\ ~clean
        /\ \A i \in 1..Len(queue) :
              /\ queue[i].op \in {"insert", "delete_rule"} /\ IsManaged(queue[i].rule)
              /\ queue[i].op = "insert" => queue[i].at >= 1

ChainInv ==
    /\ TypeInv /\ StepInv /\ HistoryInv /\ NoneInv /\ PrepareInv /\ FinalizeInv
    /\ StageInv /\ DropInv /\ ApplyInv /\ RestoreInv /\ PutBackInv

(* A candidate that passed prepare is one that finalize will know again. *)
WordInv ==
    /\ verbatim \in BOOLEAN
    /\ (step = "staged" \/ phase = "finalize") => Recognised

(* A prepare that is taken back had a reason to be. *)
Reason == faults > 0 \/ ~clean \/ ~verbatim
RefusalInv ==
    /\ phase = "undo_prepare" => Reason
    /\ (phase = "none" /\ step = "refused") => Reason

-----------------------------------------------------------------------------
(* Positions in ascending order *)

(* How many positions of S are not above i. *)
Rank(S, i) == Cardinality({j \in S : j <= i})

(* g lists the positions of S, m of them, in ascending order. *)
Lists(g, m, S) ==
    /\ m \in Nat /\ g \in [1..m -> S]
    /\ \A i, j \in 1..m : i < j => g[i] < g[j]
    /\ \A s \in S : \E i \in 1..m : g[i] = s

(* A finite set of positions ranks its members without repetition. *)
LEMMA RankFacts ==
    ASSUME NEW S, S \subseteq Nat, IsFiniteSet(S), NEW i \in S
    PROVE  /\ Rank(S, i) \in 1..Cardinality(S)
           /\ \A j \in S : i < j => Rank(S, i) < Rank(S, j)
<1> DEFINE D(k) == {j \in S : j <= k}
<1>1. Cardinality(S) \in Nat
  BY FS_CardinalityType
<1>2. \A k \in S : IsFiniteSet(D(k)) /\ Cardinality(D(k)) \in Nat
      /\ Cardinality(D(k)) <= Cardinality(S)
  <2> SUFFICES ASSUME NEW k \in S
               PROVE IsFiniteSet(D(k)) /\ Cardinality(D(k)) \in Nat
                       /\ Cardinality(D(k)) <= Cardinality(S)
    OBVIOUS
  <2>1. D(k) \in SUBSET S
    OBVIOUS
  <2> HIDE DEF D
  <2> QED BY <2>1, FS_Subset, FS_CardinalityType
<1>3. Cardinality(D(i)) # 0
  <2>1. i \in D(i)
    OBVIOUS
  <2> HIDE DEF D
  <2> QED BY <1>2, <2>1, FS_EmptySet
<1>4. ASSUME NEW j \in S, i < j
      PROVE  Cardinality(D(i)) < Cardinality(D(j))
  <2>1. i \in Nat /\ j \in Nat /\ i < j
    BY <1>4
  <2>2. D(i) \in SUBSET D(j) /\ j \in D(j) /\ j \notin D(i)
    <3>1. \A x \in D(i) : x \in S /\ x <= j
      <4> SUFFICES ASSUME NEW x \in S, x <= i PROVE x <= j
        OBVIOUS
      <4>1. x \in Nat
        OBVIOUS
      <4> QED BY <2>1, <4>1
    <3>2. j <= j /\ ~ (j <= i)
      BY <2>1
    <3> QED BY <3>1, <3>2
  <2> HIDE DEF D
  <2>3. Cardinality(D(i)) <= Cardinality(D(j)) /\ Cardinality(D(i)) # Cardinality(D(j))
    BY <1>2, <2>2, FS_Subset
  <2> QED BY <1>2, <2>3
<1> QED BY <1>1, <1>2, <1>3, <1>4 DEF Rank

(* A listing in ascending order is the one Nth gives. *)
LEMMA Listing ==
    ASSUME NEW S \in SUBSET Nat, NEW m \in Nat, NEW g \in [1..m -> S], Lists(g, m, S)
    PROVE  /\ IsFiniteSet(S) /\ Cardinality(S) = m
           /\ \A n \in 1..m : Nth(S, n) = g[n] /\ Rank(S, g[n]) = n
<1>1. /\ m \in Nat /\ g \in [1..m -> S]
      /\ \A i, j \in 1..m : i < j => g[i] < g[j]
      /\ \A s \in S : \E i \in 1..m : g[i] = s
  BY DEF Lists
<1>2. \A i, j \in 1..m : g[i] = g[j] => i = j
  <2> SUFFICES ASSUME NEW i \in 1..m, NEW j \in 1..m, i # j PROVE g[i] # g[j]
    OBVIOUS
  <2>1. g[i] \in Nat /\ g[j] \in Nat
    BY <1>1
  <2>2. i < j \/ j < i
    BY <1>1
  <2> QED BY <1>1, <2>1, <2>2
<1>3. IsFiniteSet(S) /\ Cardinality(S) = m
  <2>1. g \in Bijection(1..m, S)
    BY <1>1, <1>2 DEF Bijection, Injection, Surjection, IsInjective
  <2>2. ExistsBijection(1..m, S)
    BY <2>1 DEF ExistsBijection
  <2> QED BY <1>1, <2>2, FS_NatBijection, FS_CountingElements
<1>4. ASSUME NEW n \in 1..m PROVE Rank(S, g[n]) = n
  <2> DEFINE D == {j \in S : j <= g[n]}
             h == [k \in 1..n |-> g[k]]
  <2>1. \A k \in 1..n : k \in 1..m /\ g[k] \in S /\ g[k] <= g[n]
    <3> SUFFICES ASSUME NEW k \in 1..n PROVE k \in 1..m /\ g[k] \in S /\ g[k] <= g[n]
      OBVIOUS
    <3>1. k \in 1..m /\ (k = n \/ k < n)
      BY <1>1
    <3>2. g[k] \in Nat /\ g[n] \in Nat
      BY <1>1, <3>1
    <3> QED BY <1>1, <3>1, <3>2
  <2>2. \A d \in D : \E k \in 1..n : g[k] = d
    <3> SUFFICES ASSUME NEW d \in D PROVE \E k \in 1..n : g[k] = d
      OBVIOUS
    <3>1. PICK k \in 1..m : g[k] = d
      BY <1>1
    <3>2. g[k] \in Nat /\ g[n] \in Nat /\ g[k] <= g[n]
      BY <1>1, <3>1
    <3>3. ~ (g[n] < g[k])
      BY <3>2
    <3>4. ~ (n < k)
      BY <1>1, <3>3
    <3> QED BY <1>1, <3>1, <3>4
  <2>3. h \in Bijection(1..n, D)
    <3>1. h \in [1..n -> D]
      BY <2>1
    <3>2. \A a, b \in 1..n : h[a] = h[b] => a = b
      BY <1>2, <2>1
    <3>3. \A d \in D : \E k \in 1..n : h[k] = d
      BY <2>2
    <3> HIDE DEF h, D
    <3> QED BY <3>1, <3>2, <3>3, Zenon DEF Bijection, Injection, Surjection, IsInjective
  <2>4. ExistsBijection(1..n, D)
    BY <2>3 DEF ExistsBijection
  <2>5. n \in Nat
    BY <1>1
  <2> HIDE DEF D
  <2>6. Cardinality(D) = n
    BY <2>4, <2>5, FS_CountingElements
  <2> QED BY <2>6 DEF Rank, D
<1>5. ASSUME NEW n \in 1..m PROVE Nth(S, n) = g[n]
  <2>1. \A i \in S : Rank(S, i) = n => i = g[n]
    <3> SUFFICES ASSUME NEW i \in S, Rank(S, i) = n PROVE i = g[n]
      OBVIOUS
    <3>1. PICK k \in 1..m : g[k] = i
      BY <1>1
    <3> QED BY <1>4, <3>1
  <2>2. g[n] \in S /\ Rank(S, g[n]) = n
    BY <1>1, <1>4
  <2>3. Nth(S, n) = CHOOSE i \in S : Rank(S, i) = n
    BY DEF Nth, Rank
  <2> HIDE DEF Rank
  <2> QED BY <2>1, <2>2, <2>3
<1> QED BY <1>3, <1>4, <1>5

(* Every finite set of positions is listed by Nth. *)
LEMMA NthLists ==
    ASSUME NEW S, S \subseteq Nat, IsFiniteSet(S)
    PROVE  /\ Cardinality(S) \in Nat
           /\ Lists([n \in 1..Cardinality(S) |-> Nth(S, n)], Cardinality(S), S)
           /\ \A n \in 1..Cardinality(S) : Nth(S, n) \in S /\ Rank(S, Nth(S, n)) = n
           /\ \A i \in S : Rank(S, i) \in 1..Cardinality(S) /\ Nth(S, Rank(S, i)) = i
           /\ \A i, j \in 1..Cardinality(S) : i < j => Nth(S, i) < Nth(S, j)
<1> DEFINE m == Cardinality(S)
           r == [i \in S |-> Rank(S, i)]
<1>1. m \in Nat /\ IsFiniteSet(1..m) /\ Cardinality(1..m) = m
  BY FS_CardinalityType, FS_Interval
<1>2. \A i \in S : Rank(S, i) \in 1..m /\ \A j \in S : i < j => Rank(S, i) < Rank(S, j)
  BY RankFacts
<1>3. \A i, j \in S : Rank(S, i) = Rank(S, j) => i = j
  <2> SUFFICES ASSUME NEW i \in S, NEW j \in S, i # j PROVE Rank(S, i) # Rank(S, j)
    OBVIOUS
  <2>1. i < j \/ j < i
    OBVIOUS
  <2>2. Rank(S, i) \in Int /\ Rank(S, j) \in Int
    BY <1>1, <1>2
  <2> QED BY <1>2, <2>1, <2>2
<1>4. r \in Injection(S, 1..m)
  BY <1>2, <1>3 DEF Injection, IsInjective
<1>5. r \in Surjection(S, 1..m)
  <2> HIDE DEF r, m
  <2> QED BY <1>1, <1>4, FS_Injection DEF m
<1>6. \A n \in 1..m : \E i \in S : Rank(S, i) = n
  BY <1>5 DEF Surjection
<1>7. \A n \in 1..m : Nth(S, n) \in S /\ Rank(S, Nth(S, n)) = n
  <2> SUFFICES ASSUME NEW n \in 1..m PROVE Nth(S, n) \in S /\ Rank(S, Nth(S, n)) = n
    OBVIOUS
  <2>1. \E i \in S : Rank(S, i) = n
    BY <1>6
  <2> QED BY <2>1 DEF Nth, Rank
<1>8. \A i \in S : Nth(S, Rank(S, i)) = i
  BY <1>2, <1>3, <1>7
<1>9. \A i, j \in 1..m : i < j => Nth(S, i) < Nth(S, j)
  <2> SUFFICES ASSUME NEW i \in 1..m, NEW j \in 1..m, i < j PROVE Nth(S, i) < Nth(S, j)
    OBVIOUS
  <2>1. Nth(S, i) \in Nat /\ Nth(S, j) \in Nat
    BY <1>7
  <2>2. Rank(S, Nth(S, i)) = i /\ Rank(S, Nth(S, j)) = j /\ i # j /\ ~ (j < i)
    BY <1>1, <1>7
  <2>3. Nth(S, i) # Nth(S, j)
    BY <2>2
  <2>4. ~ (Nth(S, j) < Nth(S, i))
    BY <1>2, <1>7, <2>2
  <2> QED BY <2>1, <2>3, <2>4
<1>10. Lists([n \in 1..m |-> Nth(S, n)], m, S)
  BY <1>1, <1>2, <1>7, <1>8, <1>9 DEF Lists
<1> QED BY <1>1, <1>2, <1>7, <1>8, <1>9, <1>10

(* Positions in a chain. *)
LEMMA PositionSet ==
    ASSUME NEW n \in Nat, NEW S, S \subseteq 1..n
    PROVE  S \in SUBSET Nat /\ IsFiniteSet(S) /\ Cardinality(S) \in Nat
<1>1. IsFiniteSet(1..n)
  BY FS_Interval
<1>2. S \in SUBSET (1..n)
  OBVIOUS
<1>3. IsFiniteSet(S)
  BY <1>1, <1>2, FS_Subset
<1>4. S \in SUBSET Nat
  OBVIOUS
<1> QED BY <1>3, <1>4, FS_CardinalityType

(* An ascending copy of a set of positions carries the same rules. *)
LEMMA InOrderMoved ==
    ASSUME NEW S \in SUBSET Nat, IsFiniteSet(S), NEW T \in SUBSET Nat,
           NEW f \in [S -> T], \A i, j \in S : i < j => f[i] < f[j],
           \A t \in T : \E i \in S : f[i] = t,
           NEW c, NEW d, \A i \in S : d[f[i]] = c[i]
    PROVE  /\ IsFiniteSet(T) /\ Cardinality(T) = Cardinality(S)
           /\ InOrder(d, T) = InOrder(c, S)
           /\ \A n \in 1..Cardinality(S) : Nth(T, n) = f[Nth(S, n)]
<1> DEFINE m == Cardinality(S)
           g == [n \in 1..m |-> f[Nth(S, n)]]
<1>1. /\ m \in Nat
      /\ \A n \in 1..m : Nth(S, n) \in S
      /\ \A i \in S : Rank(S, i) \in 1..m /\ Nth(S, Rank(S, i)) = i
      /\ \A i, j \in 1..m : i < j => Nth(S, i) < Nth(S, j)
  BY NthLists
<1>2. g \in [1..m -> T]
  BY <1>1
<1>3. \A i, j \in 1..m : i < j => g[i] < g[j]
  BY <1>1
<1>4. \A t \in T : \E n \in 1..m : g[n] = t
  <2> SUFFICES ASSUME NEW t \in T PROVE \E n \in 1..m : g[n] = t
    OBVIOUS
  <2>1. PICK i \in S : f[i] = t
    OBVIOUS
  <2>2. Rank(S, i) \in 1..m /\ g[Rank(S, i)] = t
    BY <1>1, <2>1
  <2> QED BY <2>2
<1>5. Lists(g, m, T)
  BY <1>1, <1>2, <1>3, <1>4 DEF Lists
<1>6. IsFiniteSet(T) /\ Cardinality(T) = m /\ \A n \in 1..m : Nth(T, n) = g[n]
  <2>1. m \in Nat
    BY <1>1
  <2> HIDE DEF g, m
  <2> QED BY ONLY <1>2, <1>5, <2>1, T \in SUBSET Nat, Listing
<1>7. \A n \in 1..m : d[Nth(T, n)] = c[Nth(S, n)]
  BY <1>1, <1>6
<1> QED BY <1>6, <1>7 DEF InOrder

-----------------------------------------------------------------------------
(* Chains with one rule more *)

(* d is the chain c with the rule r put in at position p. *)
Inserted(c, p, r, d) ==
    /\ c \in Seq(Rules) /\ d \in Seq(Rules) /\ p \in 1..Len(c) + 1
    /\ Len(d) = Len(c) + 1 /\ d[p] = r
    /\ \A i \in 1..p - 1 : d[i] = c[i]
    /\ \A i \in p..Len(c) : d[i + 1] = c[i]

(* iptables -I *)
LEMMA InsertAtInserts ==
    ASSUME NEW c \in Seq(Rules), NEW p \in 1..Len(c) + 1, NEW r \in Rules
    PROVE  Inserted(c, p, r, InsertAt(c, p, r))
<1> DEFINE a == SubSeq(c, 1, p - 1)
           b == SubSeq(c, p, Len(c))
<1>1. Len(c) \in Nat /\ \A i \in 1..Len(c) : c[i] \in Rules
  OBVIOUS
<1>2. a \in Seq(Rules) /\ Len(a) = p - 1 /\ \A i \in 1..p - 1 : a[i] = c[i]
  BY <1>1, SubSeqProperties
<1>3. b \in Seq(Rules) /\ Len(b) = Len(c) - p + 1 /\ \A i \in 1..Len(c) - p + 1 : b[i] = c[p + i - 1]
  BY <1>1, SubSeqProperties
<1>4. InsertAt(c, p, r) = a \o <<r>> \o b
  BY DEF InsertAt
<1> DEFINE e == a \o <<r>>
<1> HIDE DEF a, b
<1>5. e \in Seq(Rules) /\ Len(e) = p /\ e[p] = r /\ \A i \in 1..p - 1 : e[i] = c[i]
  BY <1>1, <1>2
<1> HIDE DEF e
<1>6. /\ e \o b \in Seq(Rules) /\ Len(e \o b) = Len(c) + 1
      /\ \A i \in 1..Len(c) + 1 : (e \o b)[i] = IF i <= p THEN e[i] ELSE b[i - p]
  <2>1. /\ e \o b \in Seq(Rules) /\ Len(e \o b) = Len(e) + Len(b)
        /\ \A i \in 1..Len(e) + Len(b) :
              (e \o b)[i] = IF i <= Len(e) THEN e[i] ELSE b[i - Len(e)]
    BY <1>3, <1>5, ConcatProperties
  <2>2. Len(e) = p /\ Len(e) + Len(b) = Len(c) + 1
    BY <1>1, <1>3, <1>5
  <2> QED BY <2>1, <2>2
<1>7. \A i \in 1..p - 1 : (e \o b)[i] = c[i]
  BY <1>1, <1>5, <1>6
<1>8. (e \o b)[p] = r
  BY <1>1, <1>5, <1>6
<1>9. ASSUME NEW i \in p..Len(c) PROVE (e \o b)[i + 1] = c[i]
  <2>1. b[i + 1 - p] = c[i]
    BY <1>1, <1>3
  <2>2. i + 1 \in 1..Len(c) + 1 /\ ~ (i + 1 <= p)
    BY <1>1
  <2> QED BY <1>6, <2>1, <2>2
<1>10. InsertAt(c, p, r) = e \o b
  BY <1>4 DEF e
<1> QED BY <1>6, <1>7, <1>8, <1>9, <1>10 DEF Inserted

(* iptables -D with a position *)
LEMMA RemoveAtRemoves ==
    ASSUME NEW d \in Seq(Rules), NEW p \in 1..Len(d)
    PROVE  Inserted(RemoveAt(d, p), p, d[p], d)
<1> DEFINE a == SubSeq(d, 1, p - 1)
           b == SubSeq(d, p + 1, Len(d))
<1>1. Len(d) \in Nat /\ \A i \in 1..Len(d) : d[i] \in Rules
  OBVIOUS
<1>2. a \in Seq(Rules) /\ Len(a) = p - 1 /\ \A i \in 1..p - 1 : a[i] = d[i]
  BY <1>1, SubSeqProperties
<1>3. b \in Seq(Rules) /\ Len(b) = Len(d) - p /\ \A i \in 1..Len(d) - p : b[i] = d[p + i]
  BY <1>1, SubSeqProperties
<1>4. RemoveAt(d, p) = a \o b
  BY DEF RemoveAt
<1> HIDE DEF a, b
<1>5. /\ a \o b \in Seq(Rules) /\ Len(a \o b) = Len(d) - 1
      /\ \A i \in 1..Len(d) - 1 : (a \o b)[i] = IF i <= p - 1 THEN a[i] ELSE b[i - (p - 1)]
  <2>1. /\ a \o b \in Seq(Rules) /\ Len(a \o b) = Len(a) + Len(b)
        /\ \A i \in 1..Len(a) + Len(b) :
              (a \o b)[i] = IF i <= Len(a) THEN a[i] ELSE b[i - Len(a)]
    BY <1>2, <1>3, ConcatProperties
  <2>2. Len(a) = p - 1 /\ Len(a) + Len(b) = Len(d) - 1
    BY <1>1, <1>2, <1>3
  <2> QED BY <2>1, <2>2
<1>6. \A i \in 1..p - 1 : (a \o b)[i] = d[i]
  BY <1>1, <1>2, <1>5
<1>7. ASSUME NEW i \in p..Len(d) - 1 PROVE (a \o b)[i] = d[i + 1]
  <2>1. b[i - (p - 1)] = d[i + 1]
    BY <1>1, <1>3, SMTT(30)
  <2>2. i \in 1..Len(d) - 1 /\ ~ (i <= p - 1)
    BY <1>1
  <2> QED BY <1>5, <2>1, <2>2
<1> QED BY <1>1, <1>4, <1>5, <1>6, <1>7 DEF Inserted

(* The least of a set of positions. *)
LEMMA MinPosition ==
    ASSUME NEW S, S \subseteq Nat, S # {}
    PROVE  Min(S) \in S /\ \A x \in S : Min(S) <= x
<1> DEFINE R == OpToRel(<, Nat)
<1>1. \E x \in S : \A y \in S : ~ (<<y, x>> \in R)
  <2>1. IsWellFoundedOn(R, Nat)
    BY NatLessThanWellFounded
  <2> HIDE DEF R
  <2> QED BY <2>1, WFMin
<1>2. PICK x \in S : \A y \in S : ~ (<<y, x>> \in R)
  BY <1>1
<1>3. \A y \in S : <<y, x>> \in Nat \X Nat /\ (y < x => <<y, x>> \in R)
  BY DEF OpToRel
<1>4. ASSUME NEW y \in S PROVE x <= y
  <2>1. ~ (y < x)
    BY <1>2, <1>3
  <2>2. x \in Nat /\ y \in Nat
    OBVIOUS
  <2> QED BY <2>1, <2>2
<1> QED
  BY <1>4 DEF Min

(* iptables -D with a rule: its first occurrence goes. *)
LEMMA RemoveFirstRemoves ==
    ASSUME NEW d \in Seq(Rules), NEW r, Contains(d, r)
    PROVE  \E p \in 1..Len(d) :
               /\ d[p] = r /\ \A i \in 1..p - 1 : d[i] # r
               /\ Inserted(RemoveFirst(d, r), p, r, d)
<1> DEFINE I == {i \in 1..Len(d) : d[i] = r}
<1>1. Len(d) \in Nat /\ I # {} /\ I \subseteq Nat
  BY DEF Contains
<1>2. Min(I) \in I /\ \A x \in I : Min(I) <= x
  <2> HIDE DEF I
  <2> QED BY <1>1, MinPosition
<1>3. RemoveFirst(d, r) = RemoveAt(d, Min(I))
  BY <1>1 DEF RemoveFirst, SelectInSeq
<1>4. Min(I) \in 1..Len(d) /\ d[Min(I)] = r
  BY <1>2
<1>5. \A i \in 1..Min(I) - 1 : d[i] # r
  BY <1>1, <1>2
<1> HIDE DEF I
<1>6. Inserted(RemoveFirst(d, r), Min(I), r, d)
  BY <1>3, <1>4, RemoveAtRemoves
<1> QED BY <1>4, <1>5, <1>6

(* Another program puts a rule at the end or at the head. *)
LEMMA ForeignInserts ==
    ASSUME NEW c \in Seq(Rules), NEW r \in Rules
    PROVE  /\ Inserted(c, Len(c) + 1, r, Append(c, r))
           /\ Inserted(c, 1, r, <<r>> \o c)
<1>1. Len(c) \in Nat /\ \A i \in 1..Len(c) : c[i] \in Rules
  OBVIOUS
<1>2. Inserted(c, Len(c) + 1, r, Append(c, r))
  BY <1>1 DEF Inserted
<1>3. <<r>> \o c \in Seq(Rules) /\ Len(<<r>> \o c) = Len(c) + 1 /\ (<<r>> \o c)[1] = r
  BY <1>1
<1>4. \A i \in 1..Len(c) : (<<r>> \o c)[i + 1] = c[i]
  BY <1>1
<1> QED BY <1>1, <1>2, <1>3, <1>4 DEF Inserted

-----------------------------------------------------------------------------
(* Positions of the profile's rules and of the others *)

(* Positions of rules of other programs. *)
Rest(c) == DOMAIN c \ Own(c)

(* T are the positions in d of the rules at the positions S in c. *)
Carried(c, p, S, T) ==
    /\ S \subseteq 1..Len(c) /\ T \subseteq 1..Len(c) + 1
    /\ \A i \in 1..p - 1 : i \in T <=> i \in S
    /\ \A i \in p..Len(c) : i + 1 \in T <=> i \in S

(* A position above the inserted rule moves down by one. *)
LEMMA CarriedOwn ==
    ASSUME NEW c, NEW p, NEW r, NEW d, Inserted(c, p, r, d)
    PROVE  /\ Carried(c, p, Own(c), Own(d)) /\ Carried(c, p, Rest(c), Rest(d))
           /\ p \in Own(d) <=> IsManaged(r)
           /\ p \in Rest(d) <=> ~IsManaged(r)
<1>1. /\ c \in Seq(Rules) /\ d \in Seq(Rules) /\ p \in 1..Len(c) + 1
      /\ Len(d) = Len(c) + 1 /\ d[p] = r
      /\ \A i \in 1..p - 1 : d[i] = c[i]
      /\ \A i \in p..Len(c) : d[i + 1] = c[i]
  BY DEF Inserted
<1>2. DOMAIN c = 1..Len(c) /\ DOMAIN d = 1..Len(c) + 1 /\ Len(c) \in Nat
  BY <1>1
<1>3. ASSUME NEW i \in 1..p - 1
      PROVE  i \in 1..Len(c) /\ i \in 1..Len(c) + 1 /\ d[i] = c[i]
  BY <1>1, <1>2
<1>4. ASSUME NEW i \in p..Len(c)
      PROVE  i \in 1..Len(c) /\ i + 1 \in 1..Len(c) + 1 /\ d[i + 1] = c[i]
  BY <1>1, <1>2
<1> QED BY <1>1, <1>2, <1>3, <1>4 DEF Carried, Own, Rest

(* The rules that moved keep their order. *)
LEMMA CarriedOrder ==
    ASSUME NEW c, NEW p, NEW r, NEW d, Inserted(c, p, r, d),
           NEW S, NEW T, Carried(c, p, S, T), p \notin T
    PROVE  InOrder(d, T) = InOrder(c, S)
<1>1. /\ c \in Seq(Rules) /\ p \in 1..Len(c) + 1 /\ Len(c) \in Nat
      /\ \A i \in 1..p - 1 : d[i] = c[i]
      /\ \A i \in p..Len(c) : d[i + 1] = c[i]
  BY DEF Inserted
<1>2. /\ S \subseteq 1..Len(c) /\ T \subseteq 1..Len(c) + 1
      /\ \A i \in 1..p - 1 : i \in T <=> i \in S
      /\ \A i \in p..Len(c) : i + 1 \in T <=> i \in S
  BY DEF Carried
<1> DEFINE f == [i \in S |-> IF i < p THEN i ELSE i + 1]
<1>3. S \in SUBSET Nat /\ T \in SUBSET Nat /\ IsFiniteSet(S)
  <2>1. Len(c) + 1 \in Nat
    BY <1>1
  <2>2. S \subseteq 1..Len(c) /\ T \subseteq 1..(Len(c) + 1)
    BY <1>2
  <2>3. S \in SUBSET Nat /\ IsFiniteSet(S)
    BY <1>1, <2>2, PositionSet
  <2> QED BY <2>1, <2>2, <2>3, PositionSet
<1>4. ASSUME NEW i \in S PROVE f[i] \in T /\ d[f[i]] = c[i]
  <2>1. i \in Int /\ (i \in 1..p - 1 \/ i \in p..Len(c))
    BY <1>1, <1>2
  <2>2. CASE i \in 1..p - 1
    <3>1. f[i] = i
      BY <1>1, <2>2
    <3> QED BY <1>1, <1>2, <2>2, <3>1
  <2>3. CASE i \in p..Len(c)
    <3>1. f[i] = i + 1
      BY <1>1, <2>3
    <3> QED BY <1>1, <1>2, <2>3, <3>1
  <2> QED BY <2>1, <2>2, <2>3
<1>5. f \in [S -> T]
  BY <1>4
<1>6. ASSUME NEW i \in S, NEW j \in S, i < j PROVE f[i] < f[j]
  BY <1>1, <1>3, <1>6
<1>7. ASSUME NEW t \in T PROVE \E i \in S : f[i] = t
  <2>1. t \in Int /\ t # p /\ (t \in 1..p - 1 \/ t - 1 \in p..Len(c))
    BY <1>1, <1>2
  <2>2. CASE t \in 1..p - 1
    <3>1. t \in S
      BY <1>2, <2>2
    <3>2. f[t] = t
      BY <1>1, <2>2, <3>1
    <3> QED BY <3>1, <3>2
  <2>3. CASE t - 1 \in p..Len(c)
    <3>1. t - 1 \in S
      <4>1. (t - 1) + 1 = t
        BY <2>1
      <4> QED BY <1>2, <2>3, <4>1
    <3>2. f[t - 1] = t
      BY <1>1, <2>1, <2>3, <3>1
    <3> QED BY <3>1, <3>2
  <2> QED BY <2>1, <2>2, <2>3
<1> HIDE DEF f
<1> QED BY <1>3, <1>4, <1>5, <1>6, <1>7, InOrderMoved

(* A rule put in above all others of its kind becomes their first. *)
LEMMA CarriedFirst ==
    ASSUME NEW c, NEW p, NEW r, NEW d, Inserted(c, p, r, d),
           NEW S, NEW T, Carried(c, p, S, T), p \in T, \A i \in S : p <= i
    PROVE  /\ Cardinality(S) \in Nat /\ Cardinality(T) = Cardinality(S) + 1
           /\ InOrder(d, T) \in Seq(Rules) /\ Len(InOrder(d, T)) = Cardinality(S) + 1
           /\ Len(InOrder(c, S)) = Cardinality(S) /\ InOrder(c, S) \in Seq(Rules)
           /\ InOrder(d, T)[1] = r
           /\ \A n \in 1..Cardinality(S) : InOrder(d, T)[n + 1] = InOrder(c, S)[n]
<1>1. /\ c \in Seq(Rules) /\ p \in 1..Len(c) + 1 /\ Len(c) \in Nat /\ d[p] = r
      /\ d \in Seq(Rules) /\ Len(d) = Len(c) + 1
      /\ \A i \in p..Len(c) : d[i + 1] = c[i]
  BY DEF Inserted
<1>2. /\ S \subseteq 1..Len(c) /\ T \subseteq 1..Len(c) + 1
      /\ \A i \in 1..p - 1 : i \in T <=> i \in S
      /\ \A i \in p..Len(c) : i + 1 \in T <=> i \in S
  BY DEF Carried
<1> DEFINE m == Cardinality(S)
           g == [n \in 1..m + 1 |-> IF n = 1 THEN p ELSE Nth(S, n - 1) + 1]
<1>3. S \in SUBSET Nat /\ T \in SUBSET Nat /\ IsFiniteSet(S)
  <2>1. Len(c) + 1 \in Nat
    BY <1>1
  <2>2. S \subseteq 1..Len(c) /\ T \subseteq 1..(Len(c) + 1)
    BY <1>2
  <2>3. S \in SUBSET Nat /\ IsFiniteSet(S)
    BY <1>1, <2>2, PositionSet
  <2> QED BY <2>1, <2>2, <2>3, PositionSet
<1>4. /\ m \in Nat
      /\ \A n \in 1..m : Nth(S, n) \in S
      /\ \A i \in S : Rank(S, i) \in 1..m /\ Nth(S, Rank(S, i)) = i
      /\ \A i, j \in 1..m : i < j => Nth(S, i) < Nth(S, j)
  BY <1>3, NthLists
<1>5. ASSUME NEW i \in S PROVE i \in p..Len(c) /\ i + 1 \in T /\ i \in Nat
  BY <1>1, <1>2
<1>6. g[1] = p /\ \A n \in 1..m : g[n + 1] = Nth(S, n) + 1
  BY <1>4
<1>7. ASSUME NEW n \in 1..m + 1 PROVE n = 1 \/ (n - 1 \in 1..m /\ n = (n - 1) + 1)
  BY <1>4
<1> HIDE DEF g
<1>8. g \in [1..m + 1 -> T]
  <2>1. ASSUME NEW n \in 1..m + 1 PROVE g[n] \in T
    <3>1. CASE n = 1
      BY <1>6, <3>1
    <3>2. CASE n - 1 \in 1..m /\ n = (n - 1) + 1
      <4>1. Nth(S, n - 1) \in S
        BY <1>4, <3>2
      <4> QED BY <1>5, <1>6, <3>2, <4>1
    <3> QED BY <1>7, <3>1, <3>2
  <2> QED BY <2>1 DEF g
<1>9. ASSUME NEW i \in 1..m + 1, NEW j \in 1..m + 1, i < j PROVE g[i] < g[j]
  <2>1. j # 1 /\ j - 1 \in 1..m
    BY <1>4, <1>7, <1>9
  <2>2. g[j] = Nth(S, j - 1) + 1 /\ Nth(S, j - 1) \in S
    BY <1>4, <1>6, <1>7, <2>1
  <2>3. CASE i = 1
    BY <1>1, <1>5, <1>6, <2>2, <2>3
  <2>4. CASE i - 1 \in 1..m /\ i = (i - 1) + 1
    <3>1. g[i] = Nth(S, i - 1) + 1 /\ Nth(S, i - 1) \in S
      BY <1>4, <1>6, <2>4
    <3>2. Nth(S, i - 1) < Nth(S, j - 1)
      BY <1>4, <1>9, <2>1, <2>4
    <3>3. Nth(S, i - 1) \in Nat /\ Nth(S, j - 1) \in Nat
      BY <1>5, <2>2, <3>1
    <3> QED BY <2>2, <3>1, <3>2, <3>3
  <2> QED BY <1>7, <2>3, <2>4
<1>10. ASSUME NEW t \in T PROVE \E n \in 1..m + 1 : g[n] = t
  <2>1. CASE t = p
    BY <1>4, <1>6, <2>1
  <2>2. CASE t # p
    <3>1. t \in Int /\ (t \in 1..p - 1 \/ t - 1 \in p..Len(c))
      BY <1>1, <1>2, <2>2
    <3>2. t \notin 1..p - 1
      BY <1>1, <1>2, <1>5
    <3>3. t - 1 \in S
      <4>1. (t - 1) + 1 = t
        BY <3>1
      <4> QED BY <1>2, <3>1, <3>2, <4>1
    <3>4. Rank(S, t - 1) \in 1..m /\ g[Rank(S, t - 1) + 1] = t
      <4>1. Rank(S, t - 1) \in 1..m /\ Nth(S, Rank(S, t - 1)) = t - 1
        BY <1>4, <3>3
      <4>2. g[Rank(S, t - 1) + 1] = (t - 1) + 1
        BY <1>6, <4>1
      <4> QED BY <3>1, <4>1, <4>2
    <3>5. Rank(S, t - 1) + 1 \in 1..m + 1
      BY <1>4, <3>4
    <3> QED BY <3>4, <3>5
  <2> QED BY <2>1, <2>2
<1>11. m + 1 \in Nat /\ Lists(g, m + 1, T)
  BY <1>4, <1>8, <1>9, <1>10 DEF Lists
<1>12. Cardinality(T) = m + 1 /\ \A n \in 1..m + 1 : Nth(T, n) = g[n]
  BY <1>3, <1>8, <1>11, Listing
<1>13. /\ InOrder(d, T) = [n \in 1..m + 1 |-> d[g[n]]]
       /\ InOrder(c, S) = [n \in 1..m |-> c[Nth(S, n)]]
  BY <1>12 DEF InOrder
<1>14. \A n \in 1..m + 1 : d[g[n]] \in Rules
  <2>1. \A i \in 1..Len(c) + 1 : d[i] \in Rules
    BY <1>1
  <2>2. \A n \in 1..m + 1 : g[n] \in 1..Len(c) + 1
    BY <1>2, <1>8
  <2> QED BY <2>1, <2>2
<1>15. \A n \in 1..m : c[Nth(S, n)] \in Rules
  <2>1. \A i \in 1..Len(c) : c[i] \in Rules
    BY <1>1
  <2>2. \A n \in 1..m : Nth(S, n) \in 1..Len(c)
    BY <1>2, <1>4
  <2> QED BY <2>1, <2>2
<1>16. \A n \in 1..m : d[g[n + 1]] = c[Nth(S, n)] /\ n + 1 \in 1..m + 1
  BY <1>1, <1>4, <1>5, <1>6
<1> HIDE DEF m
<1>17. /\ InOrder(d, T) \in Seq(Rules) /\ Len(InOrder(d, T)) = m + 1
       /\ Len(InOrder(c, S)) = m /\ InOrder(c, S) \in Seq(Rules)
  BY <1>4, <1>11, <1>13, <1>14, <1>15
<1>18. InOrder(d, T)[1] = r /\ \A n \in 1..m : InOrder(d, T)[n + 1] = InOrder(c, S)[n]
  BY <1>1, <1>4, <1>6, <1>13, <1>16
<1> QED BY <1>4, <1>12, <1>17, <1>18 DEF m

(* A rule put in below all others of its kind becomes their last. *)
LEMMA CarriedLast ==
    ASSUME NEW c, NEW p, NEW r, NEW d, Inserted(c, p, r, d),
           NEW S, NEW T, Carried(c, p, S, T), p \in T, \A i \in S : i < p
    PROVE  InOrder(d, T) = Append(InOrder(c, S), r)
<1>1. /\ c \in Seq(Rules) /\ p \in 1..Len(c) + 1 /\ Len(c) \in Nat /\ d[p] = r
      /\ \A i \in 1..p - 1 : d[i] = c[i]
  BY DEF Inserted
<1>2. /\ S \subseteq 1..Len(c) /\ T \subseteq 1..Len(c) + 1
      /\ \A i \in 1..p - 1 : i \in T <=> i \in S
      /\ \A i \in p..Len(c) : i + 1 \in T <=> i \in S
  BY DEF Carried
<1> DEFINE m == Cardinality(S)
           g == [n \in 1..m + 1 |-> IF n = m + 1 THEN p ELSE Nth(S, n)]
<1>3. S \in SUBSET Nat /\ T \in SUBSET Nat /\ IsFiniteSet(S)
  <2>1. Len(c) + 1 \in Nat
    BY <1>1
  <2>2. S \subseteq 1..Len(c) /\ T \subseteq 1..(Len(c) + 1)
    BY <1>2
  <2>3. S \in SUBSET Nat /\ IsFiniteSet(S)
    BY <1>1, <2>2, PositionSet
  <2> QED BY <2>1, <2>2, <2>3, PositionSet
<1>4. /\ m \in Nat
      /\ \A n \in 1..m : Nth(S, n) \in S
      /\ \A i \in S : Rank(S, i) \in 1..m /\ Nth(S, Rank(S, i)) = i
      /\ \A i, j \in 1..m : i < j => Nth(S, i) < Nth(S, j)
  BY <1>3, NthLists
<1>5. ASSUME NEW i \in S PROVE i \in 1..p - 1 /\ i \in T /\ i < p
  BY <1>1, <1>2
<1>6. g[m + 1] = p /\ \A n \in 1..m : g[n] = Nth(S, n) /\ n \in 1..m + 1
  BY <1>4
<1>7. ASSUME NEW n \in 1..m + 1 PROVE n = m + 1 \/ n \in 1..m
  BY <1>4
<1> HIDE DEF g
<1>8. g \in [1..m + 1 -> T]
  <2>1. ASSUME NEW n \in 1..m + 1 PROVE g[n] \in T
    BY <1>4, <1>5, <1>6, <1>7
  <2> QED BY <2>1 DEF g
<1>9. ASSUME NEW i \in 1..m + 1, NEW j \in 1..m + 1, i < j PROVE g[i] < g[j]
  <2>1. i \in 1..m
    BY <1>4, <1>9
  <2>2. g[i] = Nth(S, i) /\ Nth(S, i) \in S
    BY <1>4, <1>6, <2>1
  <2>3. CASE j = m + 1
    BY <1>5, <1>6, <2>2, <2>3
  <2>4. CASE j \in 1..m
    BY <1>4, <1>6, <1>9, <2>1, <2>4
  <2> QED BY <1>7, <2>3, <2>4
<1>10. ASSUME NEW t \in T PROVE \E n \in 1..m + 1 : g[n] = t
  <2>1. CASE t = p
    BY <1>4, <1>6, <2>1
  <2>2. CASE t # p
    <3>1. t \in Int /\ (t \in 1..p - 1 \/ t - 1 \in p..Len(c))
      BY <1>1, <1>2, <2>2
    <3>2. t - 1 \notin p..Len(c)
      <4> SUFFICES ASSUME t - 1 \in p..Len(c) PROVE FALSE
        OBVIOUS
      <4>1. (t - 1) + 1 = t
        BY <3>1
      <4>2. t - 1 \in S
        BY <1>2, <4>1
      <4> QED BY <1>1, <1>5, <3>1, <4>2
    <3>3. t \in S
      BY <1>2, <3>1, <3>2
    <3>4. Rank(S, t) \in 1..m /\ g[Rank(S, t)] = t
      BY <1>4, <1>6, <3>3
    <3>5. Rank(S, t) \in 1..m + 1
      BY <1>4, <3>4
    <3> QED BY <3>4, <3>5
  <2> QED BY <2>1, <2>2
<1>11. m + 1 \in Nat /\ Lists(g, m + 1, T)
  BY <1>4, <1>8, <1>9, <1>10 DEF Lists
<1>12. Cardinality(T) = m + 1 /\ \A n \in 1..m + 1 : Nth(T, n) = g[n]
  BY <1>3, <1>8, <1>11, Listing
<1>13. /\ InOrder(d, T) = [n \in 1..m + 1 |-> d[g[n]]]
       /\ InOrder(c, S) = [n \in 1..m |-> c[Nth(S, n)]]
  BY <1>12 DEF InOrder
<1>14. \A n \in 1..m : c[Nth(S, n)] \in Rules
  <2>1. \A i \in 1..Len(c) : c[i] \in Rules
    BY <1>1
  <2>2. \A n \in 1..m : Nth(S, n) \in 1..Len(c)
    BY <1>2, <1>4
  <2> QED BY <2>1, <2>2
<1>15. \A n \in 1..m : d[g[n]] = c[Nth(S, n)]
  BY <1>1, <1>4, <1>5, <1>6
<1>16. d[g[m + 1]] = r
  BY <1>1, <1>6
<1> HIDE DEF m
<1>17. InOrder(c, S) \in Seq(Rules) /\ Len(InOrder(c, S)) = m
  BY <1>4, <1>13, <1>14
<1>18. ASSUME NEW n \in 1..m + 1 PROVE d[g[n]] = IF n <= m THEN InOrder(c, S)[n] ELSE r
  BY <1>4, <1>7, <1>13, <1>15, <1>16
<1> DEFINE x == InOrder(c, S)
           y == InOrder(d, T)
<1>19. r \in Rules
  BY DEF Inserted
<1>20. x \in Seq(Rules) /\ Len(x) = m
  BY <1>17
<1>21. y \in Seq(Rules) /\ Len(y) = m + 1
  <2>1. \A n \in 1..m + 1 : d[g[n]] \in Rules
    BY <1>7, <1>14, <1>15, <1>16, <1>19
  <2> QED BY <1>11, <1>13, <2>1
<1>22. \A n \in 1..m + 1 : y[n] = IF n <= m THEN x[n] ELSE r
  BY <1>13, <1>18
<1> HIDE DEF x, y
<1>23. Append(x, r) \in Seq(Rules) /\ Len(Append(x, r)) = m + 1
  BY <1>4, <1>19, <1>20
<1>24. \A n \in 1..m + 1 : Append(x, r)[n] = IF n <= m THEN x[n] ELSE r
  BY <1>4, <1>20
<1>25. y = Append(x, r)
  BY <1>21, <1>22, <1>23, <1>24, SeqEqual
<1> QED BY <1>25 DEF x, y

(* What a chain's positions and rules are. *)
LEMMA OwnFacts ==
    ASSUME NEW c \in Seq(Rules)
    PROVE  /\ Own(c) \in SUBSET (1..Len(c)) /\ Rest(c) \in SUBSET (1..Len(c))
           /\ Own(c) \in SUBSET Nat /\ IsFiniteSet(Own(c)) /\ Cardinality(Own(c)) \in Nat
           /\ Rest(c) \in SUBSET Nat /\ IsFiniteSet(Rest(c)) /\ Cardinality(Rest(c)) \in Nat
           /\ Cardinality(Own(c)) + Cardinality(Rest(c)) = Len(c)
<1>1. Len(c) \in Nat /\ DOMAIN c = 1..Len(c)
  OBVIOUS
<1>2. Own(c) \in SUBSET (1..Len(c)) /\ Rest(c) \in SUBSET (1..Len(c))
  BY <1>1 DEF Own, Rest
<1>3. /\ Own(c) \in SUBSET Nat /\ IsFiniteSet(Own(c)) /\ Cardinality(Own(c)) \in Nat
      /\ Rest(c) \in SUBSET Nat /\ IsFiniteSet(Rest(c)) /\ Cardinality(Rest(c)) \in Nat
  BY <1>1, <1>2, PositionSet
<1>4. Own(c) \cup Rest(c) = 1..Len(c) /\ Own(c) \cap Rest(c) = {}
  BY <1>1, <1>2 DEF Rest
<1>5. Cardinality(Own(c) \cup Rest(c)) =
         Cardinality(Own(c)) + Cardinality(Rest(c)) - Cardinality(Own(c) \cap Rest(c))
  BY <1>3, FS_Union
<1>6. Cardinality({}) = 0 /\ Cardinality(1..Len(c)) = Len(c)
  <2>1. Cardinality(1..Len(c)) = IF 1 > Len(c) THEN 0 ELSE Len(c) - 1 + 1
    BY <1>1, FS_Interval
  <2>2. Cardinality(1..Len(c)) = Len(c)
    BY <1>1, <2>1
  <2> QED BY <2>2, FS_EmptySet
<1>7. Cardinality(Own(c)) + Cardinality(Rest(c)) = Len(c)
  <2>1. Len(c) = Cardinality(Own(c)) + Cardinality(Rest(c)) - 0
    BY <1>4, <1>5, <1>6
  <2> QED BY <1>3, <2>1
<1> QED BY <1>2, <1>3, <1>7

(* managed(rules()) *)
LEMMA ManagedFacts ==
    ASSUME NEW c \in Seq(Rules)
    PROVE  /\ Managed(c) \in Seq(Rules) /\ Len(Managed(c)) = Cardinality(Own(c))
           /\ \A n \in 1..Len(Managed(c)) :
                 Nth(Own(c), n) \in Own(c) /\ Managed(c)[n] = c[Nth(Own(c), n)]
                 /\ IsManaged(Managed(c)[n])
           /\ Others(c) \in Seq(Rules) /\ Len(Others(c)) = Cardinality(Rest(c))
           /\ \A n \in 1..Len(Others(c)) :
                 Nth(Rest(c), n) \in Rest(c) /\ Others(c)[n] = c[Nth(Rest(c), n)]
<1>1. Len(c) \in Nat /\ DOMAIN c = 1..Len(c) /\ \A i \in 1..Len(c) : c[i] \in Rules
  OBVIOUS
<1>2. /\ Own(c) \in SUBSET (1..Len(c)) /\ Rest(c) \in SUBSET (1..Len(c))
      /\ Own(c) \in SUBSET Nat /\ IsFiniteSet(Own(c)) /\ Cardinality(Own(c)) \in Nat
      /\ Rest(c) \in SUBSET Nat /\ IsFiniteSet(Rest(c)) /\ Cardinality(Rest(c)) \in Nat
  BY OwnFacts
<1>3. \A n \in 1..Cardinality(Own(c)) : Nth(Own(c), n) \in Own(c)
  BY <1>2, NthLists
<1>4. \A n \in 1..Cardinality(Rest(c)) : Nth(Rest(c), n) \in Rest(c)
  BY <1>2, NthLists
<1>5. /\ Managed(c) = [n \in 1..Cardinality(Own(c)) |-> c[Nth(Own(c), n)]]
      /\ Others(c) = [n \in 1..Cardinality(Rest(c)) |-> c[Nth(Rest(c), n)]]
  BY DEF Managed, Others, InOrder, Rest
<1>6. \A n \in 1..Cardinality(Own(c)) : c[Nth(Own(c), n)] \in Rules /\ IsManaged(c[Nth(Own(c), n)])
  <2>1. \A i \in Own(c) : IsManaged(c[i])
    BY DEF Own
  <2> QED BY <1>1, <1>2, <1>3, <2>1
<1>7. \A n \in 1..Cardinality(Rest(c)) : c[Nth(Rest(c), n)] \in Rules
  BY <1>1, <1>2, <1>4
<1>8. Managed(c) \in Seq(Rules) /\ Len(Managed(c)) = Cardinality(Own(c))
  BY <1>2, <1>5, <1>6
<1>9. Others(c) \in Seq(Rules) /\ Len(Others(c)) = Cardinality(Rest(c))
  BY <1>2, <1>5, <1>7, SMTT(30)
<1> QED BY <1>3, <1>4, <1>5, <1>6, <1>8, <1>9

(* Commands about rules of the profile leave the others as they are; a     *)
(* rule of another program leaves the profile's as they are.               *)
LEMMA OneKindMoves ==
    ASSUME NEW c, NEW p, NEW r, NEW d, Inserted(c, p, r, d)
    PROVE  /\ IsManaged(r) => Others(d) = Others(c)
           /\ ~IsManaged(r) => Managed(d) = Managed(c)
<1>1. /\ Carried(c, p, Own(c), Own(d)) /\ Carried(c, p, Rest(c), Rest(d))
      /\ p \in Own(d) <=> IsManaged(r)
      /\ p \in Rest(d) <=> ~IsManaged(r)
  BY CarriedOwn
<1>2. IsManaged(r) => InOrder(d, Rest(d)) = InOrder(c, Rest(c))
  BY <1>1, CarriedOrder
<1>3. ~IsManaged(r) => InOrder(d, Own(d)) = InOrder(c, Own(c))
  BY <1>1, CarriedOrder
<1> QED BY <1>2, <1>3 DEF Others, Managed, Rest

(* Rules of other programs are added to the history where they are put. *)
LEMMA ForeignOthers ==
    ASSUME NEW c \in Seq(Rules), NEW r \in Rules, ~IsManaged(r)
    PROVE  /\ Others(Append(c, r)) = Append(Others(c), r)
           /\ Others(<<r>> \o c) = <<r>> \o Others(c)
<1>1. Inserted(c, Len(c) + 1, r, Append(c, r)) /\ Inserted(c, 1, r, <<r>> \o c)
  BY ForeignInserts
<1>2. Rest(c) \in SUBSET (1..Len(c)) /\ Len(c) \in Nat
  BY OwnFacts
<1>3. Others(Append(c, r)) = Append(Others(c), r)
  <2> DEFINE d == Append(c, r)
  <2>1. Inserted(c, Len(c) + 1, r, d)
    BY <1>1
  <2> HIDE DEF d
  <2>2. Carried(c, Len(c) + 1, Rest(c), Rest(d)) /\ Len(c) + 1 \in Rest(d)
    BY <2>1, CarriedOwn
  <2>3. \A i \in Rest(c) : i < Len(c) + 1
    BY <1>2
  <2>4. InOrder(d, Rest(d)) = Append(InOrder(c, Rest(c)), r)
    BY <2>1, <2>2, <2>3, CarriedLast
  <2> QED BY <2>4 DEF d, Others, Rest
<1>4. Others(<<r>> \o c) = <<r>> \o Others(c)
  <2> DEFINE d == <<r>> \o c
  <2>1. Inserted(c, 1, r, d)
    BY <1>1
  <2> HIDE DEF d
  <2>2. Carried(c, 1, Rest(c), Rest(d)) /\ 1 \in Rest(d)
    BY <2>1, CarriedOwn
  <2>3. \A i \in Rest(c) : 1 <= i
    BY <1>2
  <2>4. /\ Cardinality(Rest(c)) \in Nat
        /\ InOrder(d, Rest(d)) \in Seq(Rules)
        /\ Len(InOrder(d, Rest(d))) = Cardinality(Rest(c)) + 1
        /\ Len(InOrder(c, Rest(c))) = Cardinality(Rest(c)) /\ InOrder(c, Rest(c)) \in Seq(Rules)
        /\ InOrder(d, Rest(d))[1] = r
        /\ \A n \in 1..Cardinality(Rest(c)) : InOrder(d, Rest(d))[n + 1] = InOrder(c, Rest(c))[n]
    BY <2>1, <2>2, <2>3, CarriedFirst
  <2>5. Others(d) = InOrder(d, Rest(d)) /\ Others(c) = InOrder(c, Rest(c))
    BY DEF Others, Rest
  <2>6. /\ Others(d) \in Seq(Rules) /\ Others(c) \in Seq(Rules)
        /\ Len(Others(d)) = Len(Others(c)) + 1
        /\ Others(d)[1] = r /\ \A n \in 1..Len(Others(c)) : Others(d)[n + 1] = Others(c)[n]
    BY <2>4, <2>5
  <2>7. Others(d) = <<r>> \o Others(c)
    <3> DEFINE x == Others(d)
               y == Others(c)
    <3>1. /\ x \in Seq(Rules) /\ y \in Seq(Rules) /\ Len(x) = Len(y) + 1
          /\ x[1] = r /\ \A n \in 1..Len(y) : x[n + 1] = y[n]
      BY <2>6
    <3> HIDE DEF x, y
    <3>2. <<r>> \o y \in Seq(Rules) /\ Len(<<r>> \o y) = Len(y) + 1 /\ (<<r>> \o y)[1] = r
      BY <3>1
    <3>3. ASSUME NEW i \in 1..Len(y) + 1 PROVE x[i] = (<<r>> \o y)[i]
      <4>1. i = 1 \/ (i - 1 \in 1..Len(y) /\ (i - 1) + 1 = i)
        BY <3>1
      <4>2. \A n \in 1..Len(y) : (<<r>> \o y)[n + 1] = y[n]
        BY <3>1
      <4> QED BY <3>1, <3>2, <4>1, <4>2
    <3>4. x = <<r>> \o y
      BY <3>1, <3>2, <3>3, SeqEqual
    <3> QED BY <3>4 DEF x, y
  <2> QED BY <2>7 DEF d
<1> QED BY <1>3, <1>4

-----------------------------------------------------------------------------
(* Rules and commands *)

(* Rules at positions, as managed_positions gives them. *)
Positioned(f) ==
    /\ DOMAIN f \in SUBSET Nat /\ 0 \notin DOMAIN f /\ IsFiniteSet(DOMAIN f)
    /\ f = [i \in DOMAIN f |-> f[i]]
    /\ \A i \in DOMAIN f : f[i] \in Rules /\ IsManaged(f[i])

(* candidate_rules: the profile's own, the DROP last, no stranger. *)
LEMMA CandidateFacts ==
    ASSUME NEW c \in Configs
    PROVE  LET cand == CandidateRules(c) IN
           /\ cand \in Seq(Rules) /\ Len(cand) \in Nat
           /\ \A i \in 1..Len(cand) : IsManaged(cand[i])
           /\ \A i \in 1..Len(cand) : \A p : ~Opens(cand[i], p)
           /\ c.enabled =>
                 /\ Len(cand) = Len(c.sources) + 1 /\ Len(c.sources) \in Nat
                 /\ cand[Len(cand)] = Drop(c.port)
                 /\ \A i \in 1..Len(c.sources) : cand[i] = Allow(c.sources[i], c.port)
           /\ ~c.enabled => cand = <<>>
<1> DEFINE cand == CandidateRules(c)
           s == c.sources
           a == [i \in DOMAIN s |-> Allow(s[i], c.port)]
<1>1. c.enabled \in BOOLEAN /\ s \in Seq(Sources \ {Stranger}) /\ c.port \in Ports
  BY FirewallAssumption DEF Ports
<1>2. CASE ~c.enabled
  <2>1. cand = <<>>
    BY <1>2 DEF CandidateRules
  <2>2. <<>> \in Seq(Rules) /\ Len(<<>>) = 0
    OBVIOUS
  <2> HIDE DEF cand
  <2>3. \A i \in 1..Len(cand) : FALSE
    BY <2>1, <2>2
  <2>4. cand \in Seq(Rules) /\ Len(cand) \in Nat
    BY <2>1, <2>2
  <2> QED BY <1>2, <2>1, <2>3, <2>4 DEF cand
<1>3. CASE c.enabled
  <2>1. cand = a \o <<Drop(c.port)>>
    BY <1>3 DEF CandidateRules
  <2> HIDE DEF s, cand
  <2>2. Len(s) \in Nat /\ DOMAIN s = 1..Len(s) /\ \A i \in 1..Len(s) : s[i] \in Sources /\ s[i] # Stranger
    BY <1>1
  <2>3. /\ Drop(c.port) \in Rules /\ IsManaged(Drop(c.port)) /\ \A p : ~Opens(Drop(c.port), p)
    BY <1>1 DEF Drop, Rules, IsManaged, Opens
  <2>4. ASSUME NEW i \in 1..Len(s)
        PROVE  /\ Allow(s[i], c.port) \in Rules /\ IsManaged(Allow(s[i], c.port))
               /\ \A p : ~Opens(Allow(s[i], c.port), p)
    BY <1>1, <2>2 DEF Allow, Rules, IsManaged, Opens
  <2>5. a \in Seq(Rules) /\ Len(a) = Len(s) /\ \A i \in 1..Len(s) : a[i] = Allow(s[i], c.port)
    BY <2>2, <2>4
  <2> HIDE DEF a
  <2> DEFINE e == <<Drop(c.port)>>
  <2>6. e \in Seq(Rules) /\ Len(e) = 1 /\ e[1] = Drop(c.port)
    BY <2>3
  <2> HIDE DEF e
  <2>7. /\ cand \in Seq(Rules) /\ Len(cand) = Len(s) + 1
        /\ \A i \in 1..Len(s) + 1 : cand[i] = IF i <= Len(s) THEN a[i] ELSE e[i - Len(s)]
    BY <2>1, <2>5, <2>6, ConcatProperties DEF e
  <2>8. \A i \in 1..Len(s) : cand[i] = Allow(s[i], c.port)
    BY <2>2, <2>5, <2>7
  <2>9. cand[Len(cand)] = Drop(c.port)
    <3>1. Len(s) + 1 \in 1..Len(s) + 1 /\ ~ (Len(s) + 1 <= Len(s)) /\ (Len(s) + 1) - Len(s) = 1
      BY <2>2
    <3> QED BY <2>6, <2>7, <3>1
  <2>10. ASSUME NEW i \in 1..Len(cand)
         PROVE  IsManaged(cand[i]) /\ \A p : ~Opens(cand[i], p)
    <3>1. i = Len(cand) \/ i \in 1..Len(s)
      BY <2>2, <2>7
    <3> QED BY <2>3, <2>4, <2>8, <2>9, <3>1
  <2>11. Len(cand) \in Nat
    BY <2>2, <2>7
  <2> QED BY <1>3, <2>2, <2>7, <2>8, <2>9, <2>10, <2>11 DEF cand, s
<1> QED BY <1>1, <1>2, <1>3

(* The shape of the three iptables commands. *)
LEMMA CommandFacts ==
    /\ \A at \in Nat, r \in Rules :
          /\ InsertCmd(at, r) \in Commands /\ InsertCmd(at, r).op = "insert"
          /\ InsertCmd(at, r).at = at /\ InsertCmd(at, r).rule = r
    /\ \A at \in Nat : DeleteCmd(at) \in Commands /\ DeleteCmd(at).op = "delete" /\ DeleteCmd(at).at = at
    /\ \A r \in Rules :
          /\ DeleteRuleCmd(r) \in Commands /\ DeleteRuleCmd(r).op = "delete_rule"
          /\ DeleteRuleCmd(r).rule = r
<1>1. Other(0) \in Rules
  BY DEF Other, Rules
<1> HIDE DEF Rules
<1> QED BY <1>1 DEF InsertCmd, DeleteCmd, DeleteRuleCmd, Commands

(* for rule in reversed(candidate): insert_rule(1, rule) *)
LEMMA InsertOnTopFacts ==
    ASSUME NEW s \in Seq(Rules)
    PROVE  /\ InsertOnTop(s) \in Seq(Commands) /\ Len(InsertOnTop(s)) = Len(s) /\ Len(s) \in Nat
           /\ \A i \in 1..Len(s) :
                 InsertOnTop(s)[i] = InsertCmd(1, s[Len(s) + 1 - i]) /\ Len(s) + 1 - i \in 1..Len(s)
<1>1. Len(s) \in Nat /\ DOMAIN s = 1..Len(s) /\ \A i \in 1..Len(s) : s[i] \in Rules
  OBVIOUS
<1>2. \A i \in 1..Len(s) : Len(s) + 1 - i \in 1..Len(s)
  BY <1>1
<1>3. \A i \in 1..Len(s) : InsertCmd(1, s[Len(s) + 1 - i]) \in Commands
  BY <1>1, <1>2, CommandFacts
<1>4. InsertOnTop(s) = [i \in 1..Len(s) |-> InsertCmd(1, s[Len(s) + 1 - i])]
  BY <1>1 DEF InsertOnTop
<1> QED BY <1>1, <1>2, <1>3, <1>4

(* for _index in range(count): delete_position(1) *)
LEMMA DeleteTopFacts ==
    ASSUME NEW k \in Nat
    PROVE  /\ DeleteTop(k) \in Seq(Commands) /\ Len(DeleteTop(k)) = k
           /\ \A i \in 1..k : DeleteTop(k)[i] = DeleteCmd(1)
           /\ DeleteTop(k) = <<>> <=> k = 0
           /\ k > 0 => Tail(DeleteTop(k)) = DeleteTop(k - 1)
<1>1. DeleteCmd(1) \in Commands
  BY CommandFacts
<1>2. ASSUME NEW n \in Nat
      PROVE  /\ DeleteTop(n) \in Seq(Commands) /\ Len(DeleteTop(n)) = n
             /\ \A i \in 1..n : DeleteTop(n)[i] = DeleteCmd(1)
  BY <1>1 DEF DeleteTop
<1>3. DeleteTop(k) = <<>> <=> k = 0
  BY <1>2, EmptySeq
<1>4. ASSUME k > 0 PROVE Tail(DeleteTop(k)) = DeleteTop(k - 1)
  <2> DEFINE x == DeleteTop(k)
             y == DeleteTop(k - 1)
  <2>1. k - 1 \in Nat
    BY <1>4
  <2>2. /\ x \in Seq(Commands) /\ Len(x) = k /\ \A i \in 1..k : x[i] = DeleteCmd(1)
        /\ y \in Seq(Commands) /\ Len(y) = k - 1 /\ \A i \in 1..k - 1 : y[i] = DeleteCmd(1)
        /\ x # <<>>
    BY <1>2, <1>3, <1>4, <2>1
  <2> HIDE DEF x, y
  <2>3. Tail(x) \in Seq(Commands) /\ Len(Tail(x)) = k - 1
        /\ \A i \in 1..k - 1 : Tail(x)[i] = x[i + 1]
    BY <2>2, HeadTailProperties
  <2>4. \A i \in 1..k - 1 : i + 1 \in 1..k
    OBVIOUS
  <2>5. Tail(x) = y
    BY <2>2, <2>3, <2>4, SeqEqual
  <2> QED BY <2>5 DEF x, y
<1> QED BY <1>2, <1>3, <1>4

(* insert_at_positions *)
LEMMA InsertPositionsFacts ==
    ASSUME NEW f, Positioned(f)
    PROVE  /\ Cardinality(DOMAIN f) \in Nat
           /\ InsertPositions(f) \in Seq(Commands) /\ Len(InsertPositions(f)) = Cardinality(DOMAIN f)
           /\ \A n \in 1..Cardinality(DOMAIN f) :
                 /\ InsertPositions(f)[n] = InsertCmd(Nth(DOMAIN f, n), f[Nth(DOMAIN f, n)])
                 /\ Nth(DOMAIN f, n) \in DOMAIN f
                 /\ f[Nth(DOMAIN f, n)] \in Rules /\ IsManaged(f[Nth(DOMAIN f, n)])
<1> DEFINE S == DOMAIN f
           m == Cardinality(S)
<1>1. S \in SUBSET Nat /\ IsFiniteSet(S) /\ \A i \in S : f[i] \in Rules /\ IsManaged(f[i])
  BY DEF Positioned
<1>2. InsertPositions(f) = [n \in 1..m |-> InsertCmd(Nth(S, n), f[Nth(S, n)])]
  BY DEF InsertPositions
<1> HIDE DEF S
<1>3. m \in Nat /\ \A n \in 1..m : Nth(S, n) \in S
  BY <1>1, NthLists
<1> HIDE DEF m
<1>4. \A n \in 1..m : InsertCmd(Nth(S, n), f[Nth(S, n)]) \in Commands
  BY <1>1, <1>3, CommandFacts
<1>5. InsertPositions(f) \in Seq(Commands) /\ Len(InsertPositions(f)) = m
  BY <1>2, <1>3, <1>4
<1> QED BY <1>1, <1>2, <1>3, <1>5 DEF S, m

(* for position in sorted(obsolete, reverse=True): delete_position(position) *)
LEMMA DeletePositionsFacts ==
    ASSUME NEW f, Positioned(f)
    PROVE  /\ Cardinality(DOMAIN f) \in Nat
           /\ DeletePositions(f) \in Seq(Commands) /\ Len(DeletePositions(f)) = Cardinality(DOMAIN f)
           /\ \A n \in 1..Cardinality(DOMAIN f) :
                 /\ DeletePositions(f)[n] = DeleteCmd(Nth(DOMAIN f, Cardinality(DOMAIN f) + 1 - n))
                 /\ Nth(DOMAIN f, Cardinality(DOMAIN f) + 1 - n) \in DOMAIN f
<1> DEFINE S == DOMAIN f
           m == Cardinality(S)
<1>1. S \in SUBSET Nat /\ IsFiniteSet(S)
  BY DEF Positioned
<1>2. DeletePositions(f) = [n \in 1..m |-> DeleteCmd(Nth(S, m + 1 - n))]
  BY DEF DeletePositions
<1> HIDE DEF S
<1>3. m \in Nat /\ \A n \in 1..m : Nth(S, n) \in S
  BY <1>1, NthLists
<1> HIDE DEF m
<1>4. \A n \in 1..m : m + 1 - n \in 1..m
  BY <1>3
<1>5. \A n \in 1..m : DeleteCmd(Nth(S, m + 1 - n)) \in Commands
  BY <1>1, <1>3, <1>4, CommandFacts
<1>6. DeletePositions(f) \in Seq(Commands) /\ Len(DeletePositions(f)) = m
  BY <1>2, <1>3, <1>5
<1> QED BY <1>1, <1>2, <1>3, <1>4, <1>6 DEF S, m

(* clear() *)
LEMMA ClearManagedFacts ==
    ASSUME NEW c \in Seq(Rules)
    PROVE  /\ ClearManaged(c) \in Seq(Commands) /\ Len(ClearManaged(c)) = Len(Managed(c))
           /\ Len(Managed(c)) \in Nat
           /\ \A n \in 1..Len(Managed(c)) : ClearManaged(c)[n] = DeleteRuleCmd(Managed(c)[n])
<1> DEFINE s == Managed(c)
<1>1. s \in Seq(Rules)
  BY ManagedFacts
<1>2. ClearManaged(c) = [i \in DOMAIN s |-> DeleteRuleCmd(s[i])]
  BY DEF ClearManaged
<1> HIDE DEF s
<1>3. Len(s) \in Nat /\ DOMAIN s = 1..Len(s) /\ \A i \in 1..Len(s) : DeleteRuleCmd(s[i]) \in Commands
  BY <1>1, CommandFacts
<1> QED BY <1>2, <1>3 DEF s

(* The positions a process reads are positions of the profile's rules. *)
LEMMA PositionedFacts ==
    /\ Positioned(<<>>)
    /\ \A c \in Seq(Rules) : Positioned(ManagedPositions(c)) /\ DOMAIN ManagedPositions(c) = Own(c)
    /\ \A c \in Seq(Rules), n \in Nat :
          Positioned(Obsolete(c, n)) /\ DOMAIN Obsolete(c, n) = {i \in Own(c) : i > n}
<1>1. Positioned(<<>>)
  <2>1. DOMAIN <<>> = {} /\ <<>> = [i \in {} |-> <<>>[i]]
    OBVIOUS
  <2> QED BY <2>1, FS_EmptySet DEF Positioned
<1>2. ASSUME NEW c \in Seq(Rules)
      PROVE  /\ Own(c) \in SUBSET Nat /\ 0 \notin Own(c) /\ IsFiniteSet(Own(c))
             /\ \A i \in Own(c) : c[i] \in Rules /\ IsManaged(c[i])
  <2>1. Len(c) \in Nat /\ \A i \in 1..Len(c) : c[i] \in Rules
    OBVIOUS
  <2>2. Own(c) \in SUBSET (1..Len(c)) /\ Own(c) \in SUBSET Nat /\ IsFiniteSet(Own(c))
    BY OwnFacts
  <2>3. \A i \in Own(c) : IsManaged(c[i])
    BY DEF Own
  <2>4. 0 \notin Own(c)
    BY <2>2
  <2> QED BY <2>1, <2>2, <2>3, <2>4
<1>3. ASSUME NEW c \in Seq(Rules)
      PROVE  Positioned(ManagedPositions(c)) /\ DOMAIN ManagedPositions(c) = Own(c)
  BY <1>2 DEF Positioned, ManagedPositions
<1>4. ASSUME NEW c \in Seq(Rules), NEW n \in Nat
      PROVE  Positioned(Obsolete(c, n)) /\ DOMAIN Obsolete(c, n) = {i \in Own(c) : i > n}
  <2> DEFINE S == {i \in Own(c) : i > n}
  <2>1. S \in SUBSET Own(c)
    OBVIOUS
  <2>2. Obsolete(c, n) = [i \in S |-> c[i]]
    BY DEF Obsolete
  <2> HIDE DEF S
  <2>3. IsFiniteSet(S)
    BY <1>2, <2>1, FS_Subset
  <2>4. Positioned(Obsolete(c, n)) /\ DOMAIN Obsolete(c, n) = S
    BY <1>2, <2>1, <2>2, <2>3 DEF Positioned
  <2> QED BY <2>4 DEF S
<1> QED BY <1>1, <1>3, <1>4

-----------------------------------------------------------------------------
(* Lists of commands *)

(* One list of commands after another. *)
LEMMA ConcatFollowed ==
    ASSUME NEW a \in Seq(Commands), NEW r \in Seq(Commands)
    PROVE  /\ a \o r \in Seq(Commands) /\ Len(a \o r) = Len(a) + Len(r)
           /\ \A i \in 1..Len(a) : (a \o r)[i] = a[i]
           /\ Followed(a \o r, Len(a), r)
<1> DEFINE q == a \o r
<1>1. Len(a) \in Nat /\ Len(r) \in Nat
  OBVIOUS
<1>2. /\ q \in Seq(Commands) /\ Len(q) = Len(a) + Len(r)
      /\ \A i \in 1..Len(a) + Len(r) : q[i] = IF i <= Len(a) THEN a[i] ELSE r[i - Len(a)]
  BY ConcatProperties
<1> HIDE DEF q
<1>3. \A i \in 1..Len(a) : q[i] = a[i]
  BY <1>1, <1>2
<1>4. ASSUME NEW j \in 1..Len(r) PROVE q[Len(a) + j] = r[j]
  <2>1. Len(a) + j \in 1..Len(a) + Len(r) /\ ~ (Len(a) + j <= Len(a)) /\ (Len(a) + j) - Len(a) = j
    BY <1>1
  <2> QED BY <1>2, <2>1
<1> QED BY <1>2, <1>3, <1>4 DEF Followed, q

(* One command is done. *)
LEMMA FollowedTail ==
    ASSUME NEW q \in Seq(Commands), NEW r \in Seq(Commands), NEW d \in Nat
    PROVE  /\ (d # 0 /\ Followed(q, d, r)) => Followed(Tail(q), d - 1, r)
           /\ (r # <<>> /\ Followed(q, d, r)) =>
                 /\ d + 1 \in 1..Len(q) /\ r[1] = q[d + 1] /\ Followed(q, d + 1, Tail(r))
<1>1. Len(q) \in Nat /\ Len(r) \in Nat
  OBVIOUS
<1>2. ASSUME d # 0, Followed(q, d, r) PROVE Followed(Tail(q), d - 1, r)
  <2>1. Len(q) = d + Len(r) /\ \A j \in 1..Len(r) : q[d + j] = r[j]
    BY <1>2 DEF Followed
  <2>2. q # <<>>
    BY <1>1, <1>2, <2>1
  <2>3. Len(Tail(q)) = Len(q) - 1 /\ \A i \in 1..Len(q) - 1 : Tail(q)[i] = q[i + 1]
    BY <2>2, HeadTailProperties
  <2>4. ASSUME NEW j \in 1..Len(r) PROVE Tail(q)[(d - 1) + j] = r[j]
    <3>1. (d - 1) + j \in 1..Len(q) - 1 /\ ((d - 1) + j) + 1 = d + j
      BY <1>1, <1>2, <2>1
    <3>2. Tail(q)[(d - 1) + j] = q[d + j]
      BY <2>3, <3>1
    <3> QED BY <2>1, <3>2
  <2>5. Len(Tail(q)) = (d - 1) + Len(r)
    BY <1>1, <2>1, <2>3
  <2> QED BY <2>4, <2>5 DEF Followed
<1>3. ASSUME r # <<>>, Followed(q, d, r)
      PROVE  d + 1 \in 1..Len(q) /\ r[1] = q[d + 1] /\ Followed(q, d + 1, Tail(r))
  <2>1. Len(q) = d + Len(r) /\ \A j \in 1..Len(r) : q[d + j] = r[j]
    BY <1>3 DEF Followed
  <2>2. Len(r) >= 1
    BY <1>1, <1>3
  <2>3. Len(Tail(r)) = Len(r) - 1 /\ \A i \in 1..Len(r) - 1 : Tail(r)[i] = r[i + 1]
    BY <1>3, HeadTailProperties
  <2>4. ASSUME NEW j \in 1..Len(r) - 1 PROVE q[(d + 1) + j] = Tail(r)[j]
    <3>1. j + 1 \in 1..Len(r) /\ (d + 1) + j = d + (j + 1)
      BY <1>1
    <3> QED BY <2>1, <2>3, <3>1
  <2>5. Len(q) = (d + 1) + Len(Tail(r))
    <3>1. d + Len(r) = (d + 1) + (Len(r) - 1)
      BY <1>1
    <3> QED BY <2>1, <2>3, <3>1
  <2>6. 1 \in 1..Len(r) /\ d + 1 \in 1..Len(q)
    BY <1>1, <2>1, <2>2
  <2> QED BY <2>1, <2>3, <2>4, <2>5, <2>6 DEF Followed
<1> QED BY <1>2, <1>3

-----------------------------------------------------------------------------
(* Deleting by position *)

(* The list of deletions a process puts together covers what it read. *)
LEMMA DeletingStart ==
    ASSUME NEW c \in Seq(Rules), NEW n \in Nat, NEW r \in Seq(Commands)
    PROVE  LET a == DeletePositions(Obsolete(c, n))
               q == a \o r
           IN  /\ a \in Seq(Commands) /\ q \in Seq(Commands)
               /\ Deleting(c, a, n, Len(a)) /\ Deleting(c, q, n, Len(a))
               /\ Followed(q, Len(a), r)
<1> DEFINE a == DeletePositions(Obsolete(c, n))
           q == a \o r
           S == {i \in Own(c) : i > n}
           m == Cardinality(S)
<1>1. Positioned(Obsolete(c, n)) /\ DOMAIN Obsolete(c, n) = S
  BY PositionedFacts
<1>2. S \in SUBSET Nat /\ IsFiniteSet(S)
  BY <1>1 DEF Positioned
<1>3. /\ m \in Nat /\ a \in Seq(Commands) /\ Len(a) = m
      /\ \A i \in 1..m : a[i] = DeleteCmd(Nth(S, m + 1 - i)) /\ Nth(S, m + 1 - i) \in S
  BY <1>1, DeletePositionsFacts
<1>4. \A i \in S : i \in Own(c) /\ i > n
  OBVIOUS
<1>5. \A p \in Own(c) : p > n => p \in S
  OBVIOUS
<1> HIDE DEF S, a
<1>6. /\ \A i \in S : Rank(S, i) \in 1..m /\ Nth(S, Rank(S, i)) = i
      /\ \A i, j \in 1..m : i < j => Nth(S, i) < Nth(S, j)
  BY <1>2, NthLists
<1> HIDE DEF m
<1>7. ASSUME NEW i \in 1..m PROVE a[i].at = Nth(S, m + 1 - i) /\ a[i] = DeleteCmd(a[i].at)
  <2>1. Nth(S, m + 1 - i) \in Nat
    BY <1>2, <1>3
  <2> QED BY <1>3, <2>1, CommandFacts
<1>8. ASSUME NEW i \in 1..m, NEW j \in 1..i - 1 PROVE a[j].at > a[i].at
  <2>1. j \in 1..m /\ m + 1 - i \in 1..m /\ m + 1 - j \in 1..m /\ m + 1 - i < m + 1 - j
    BY <1>3
  <2>2. Nth(S, m + 1 - i) < Nth(S, m + 1 - j)
    BY <1>6, <2>1
  <2>3. Nth(S, m + 1 - i) \in Nat /\ Nth(S, m + 1 - j) \in Nat
    BY <1>2, <1>3, <2>1
  <2> QED BY <1>7, <2>1, <2>2, <2>3
<1>9. ASSUME NEW p \in Own(c), p > n PROVE \E i \in 1..m : a[i].at = p
  <2>1. Rank(S, p) \in 1..m /\ Nth(S, Rank(S, p)) = p
    BY <1>5, <1>6, <1>9
  <2>2. m + 1 - Rank(S, p) \in 1..m /\ m + 1 - (m + 1 - Rank(S, p)) = Rank(S, p)
    BY <1>3, <2>1
  <2>3. a[m + 1 - Rank(S, p)].at = p
    BY <1>7, <2>1, <2>2
  <2> QED BY <2>2, <2>3
<1>10. Deleting(c, a, n, Len(a))
  <2>1. Len(a) \in 0..Len(a)
    BY <1>3
  <2>2. \A i \in 1..m : a[i].at \in Own(c) /\ a[i].at > n
    BY <1>3, <1>4, <1>7
  <2> QED BY <1>3, <1>7, <1>8, <1>9, <2>1, <2>2 DEF Deleting
<1>11. q \in Seq(Commands) /\ Len(q) = m + Len(r) /\ Len(r) \in Nat
  <2>1. q \in Seq(Commands) /\ Len(q) = Len(a) + Len(r)
    BY <1>3, ConcatFollowed
  <2> QED BY <1>3, <2>1
<1>12. \A i \in 1..m : q[i] = a[i]
  BY <1>3, ConcatFollowed
<1>13. Followed(q, Len(a), r)
  BY <1>3, ConcatFollowed
<1> HIDE DEF q
<1>14. Deleting(c, q, n, Len(a))
  <2>1. /\ \A i \in 1..m :
              /\ a[i] = DeleteCmd(a[i].at) /\ a[i].at \in Own(c) /\ a[i].at > n
              /\ \A j \in 1..i - 1 : a[j].at > a[i].at
        /\ \A p \in Own(c) : p > n => \E i \in 1..m : a[i].at = p
    BY <1>3, <1>10 DEF Deleting
  <2>2. \A i \in 1..m : \A j \in 1..i - 1 : j \in 1..m
    BY <1>3
  <2>3. m \in 0..Len(q)
    BY <1>3, <1>11
  <2> QED BY <1>3, <1>12, <2>1, <2>2, <2>3 DEF Deleting
<1> QED BY <1>3, <1>10, <1>11, <1>13, <1>14 DEF q, a

(* Deleting the highest position leaves the others where they were. *)
LEMMA DeletingStep ==
    ASSUME NEW c \in Seq(Rules), NEW q \in Seq(Commands), NEW n \in Nat, NEW d,
           Deleting(c, q, n, d), d # 0, NEW e, Inserted(e, q[1].at, c[q[1].at], c)
    PROVE  d - 1 \in 0..Len(Tail(q)) /\ Deleting(e, Tail(q), n, d - 1)
<1> DEFINE p == q[1].at
           x == Tail(q)
<1>1. /\ d \in Nat /\ d >= 1 /\ d <= Len(q) /\ Len(q) \in Nat
      /\ \A i \in 1..d :
          /\ q[i] = DeleteCmd(q[i].at) /\ q[i].at \in Own(c) /\ q[i].at > n
          /\ \A j \in 1..i - 1 : q[j].at > q[i].at
      /\ \A z \in Own(c) : z > n => \E i \in 1..d : q[i].at = z
  BY DEF Deleting
<1>2. q # <<>>
  BY <1>1
<1>3. x \in Seq(Commands) /\ Len(x) = Len(q) - 1 /\ \A i \in 1..Len(q) - 1 : x[i] = q[i + 1]
  BY <1>2, HeadTailProperties
<1>4. /\ e \in Seq(Rules) /\ Len(c) = Len(e) + 1 /\ p \in 1..Len(e) + 1
      /\ \A i \in 1..p - 1 : c[i] = e[i]
      /\ \A i \in p..Len(e) : c[i + 1] = e[i]
  BY DEF Inserted
<1>5. /\ Carried(e, p, Own(e), Own(c))
  BY CarriedOwn
<1>6. /\ Own(e) \subseteq 1..Len(e) /\ Own(c) \subseteq 1..Len(e) + 1 /\ Len(e) \in Nat
      /\ \A i \in 1..p - 1 : i \in Own(c) <=> i \in Own(e)
      /\ \A i \in p..Len(e) : i + 1 \in Own(c) <=> i \in Own(e)
  BY <1>4, <1>5 DEF Carried
<1> HIDE DEF x
<1>7. \A i \in 1..d - 1 : i + 1 \in 1..d /\ i \in 1..Len(q) - 1 /\ x[i] = q[i + 1]
  BY <1>1, <1>3
<1>8. ASSUME NEW i \in 2..d PROVE q[i].at < p /\ q[i].at \in 1..p - 1 /\ q[i].at \in Own(e)
  <2>1. i \in 1..d /\ 1 \in 1..i - 1
    BY <1>1
  <2>2. p > q[i].at /\ q[i].at \in Own(c)
    BY <1>1, <2>1
  <2>3. q[i].at \in 1..p - 1
    BY <1>4, <1>6, <2>2
  <2> QED BY <1>4, <1>6, <2>2, <2>3
<1>9. ASSUME NEW i \in 1..d - 1
      PROVE  /\ x[i] = DeleteCmd(x[i].at) /\ x[i].at \in Own(e) /\ x[i].at > n
             /\ \A j \in 1..i - 1 : x[j].at > x[i].at
  <2>1. i + 1 \in 2..d /\ i + 1 \in 1..d
    BY <1>1
  <2>2. \A j \in 1..i - 1 : j + 1 \in 1..(i + 1) - 1 /\ j \in 1..d - 1
    BY <1>1
  <2>3. \A j \in 1..i - 1 : x[j] = q[j + 1] /\ q[j + 1].at > q[i + 1].at
    BY <1>1, <1>7, <2>1, <2>2
  <2> QED BY <1>1, <1>7, <1>8, <2>1, <2>3
<1>10. ASSUME NEW z \in Own(e), z > n PROVE \E i \in 1..d - 1 : x[i].at = z
  <2>1. z \in 1..p - 1 \/ z \in p..Len(e)
    BY <1>4, <1>6
  <2>2. CASE z \in 1..p - 1
    <3>1. z \in Own(c) /\ z # p
      BY <1>4, <1>6, <2>2
    <3>2. PICK i \in 1..d : q[i].at = z
      BY <1>1, <1>10, <3>1
    <3>3. i # 1
      BY <3>1, <3>2
    <3>4. i - 1 \in 1..d - 1 /\ (i - 1) + 1 = i
      BY <1>1, <3>3
    <3> QED BY <1>7, <3>2, <3>4
  <2>3. CASE z \in p..Len(e)
    <3>1. z + 1 \in Own(c) /\ z + 1 > n
      BY <1>6, <1>10, <2>3
    <3>2. PICK i \in 1..d : q[i].at = z + 1
      BY <1>1, <3>1
    <3>3. i = 1 \/ i \in 2..d
      BY <1>1
    <3>4. z + 1 <= p
      <4>1. CASE i = 1
        BY <1>4, <3>2, <4>1
      <4>2. CASE i \in 2..d
        BY <1>4, <1>8, <2>3, <3>2, <4>2
      <4> QED BY <3>3, <4>1, <4>2
    <3> QED BY <1>4, <2>3, <3>4
  <2> QED BY <2>1, <2>2, <2>3
<1>11. d - 1 \in 0..Len(x)
  BY <1>1, <1>3
<1>12. Deleting(e, x, n, d - 1)
  BY <1>9, <1>10, <1>11 DEF Deleting
<1> QED BY <1>11, <1>12 DEF x

-----------------------------------------------------------------------------
(* Putting rules back at their positions *)

(* The positions of the snapshot, below the candidate. *)
LEMMA ShiftedFacts ==
    ASSUME NEW f, Positioned(f), NEW n \in Nat
    PROVE  LET g == Shifted(f, n) IN
           /\ Positioned(g) /\ DOMAIN g = {j + n : j \in DOMAIN f}
           /\ \A j \in DOMAIN f : j + n \in DOMAIN g /\ g[j + n] = f[j]
           /\ \A i \in DOMAIN g : i > n
           /\ Cardinality(DOMAIN g) = Cardinality(DOMAIN f)
           /\ \A t \in 1..Cardinality(DOMAIN f) : Nth(DOMAIN g, t) = Nth(DOMAIN f, t) + n
           /\ n = 0 => g = f
<1> DEFINE S == DOMAIN f
           T == {j + n : j \in S}
           g == Shifted(f, n)
           h == [j \in S |-> j + n]
<1>1. /\ S \in SUBSET Nat /\ 0 \notin S /\ IsFiniteSet(S)
      /\ f = [i \in S |-> f[i]]
      /\ \A i \in S : f[i] \in Rules /\ IsManaged(f[i])
  BY DEF Positioned
<1>2. g = [i \in T |-> f[i - n]]
  BY DEF Shifted
<1> HIDE DEF S, g
<1>3. ASSUME NEW j \in S PROVE j + n \in T /\ (j + n) - n = j /\ j + n > n /\ j \in Nat
  <2>1. j \in Nat /\ j # 0
    BY <1>1
  <2> QED BY <2>1
<1>4. ASSUME NEW i \in T PROVE i - n \in S /\ i \in Nat /\ i > n /\ i = (i - n) + n
  <2>1. PICK j \in S : i = j + n
    OBVIOUS
  <2> QED BY <1>3, <2>1
<1>5. T \in SUBSET Nat /\ h \in [S -> T] /\ (\A t \in T : \E i \in S : h[i] = t)
  BY <1>3, <1>4
<1>6. \A i, j \in S : i < j => h[i] < h[j]
  BY <1>3
<1> HIDE DEF T
<1>7. \A j \in S : g[j + n] = f[j]
  BY <1>2, <1>3
<1>8. \A j \in S : g[h[j]] = f[j]
  BY <1>7
<1>9. IsFiniteSet(T) /\ Cardinality(T) = Cardinality(S)
      /\ \A t \in 1..Cardinality(S) : Nth(T, t) = h[Nth(S, t)]
  <2> HIDE DEF h
  <2> QED BY <1>1, <1>5, <1>6, <1>8, InOrderMoved
<1>10. \A t \in 1..Cardinality(S) : Nth(S, t) \in S
  BY <1>1, NthLists
<1>11. DOMAIN g = T /\ \A i \in T : g[i] = f[i - n]
  BY <1>2
<1>12. Positioned(g)
  <2>1. 0 \notin T
    BY <1>4
  <2>2. g = [i \in T |-> g[i]]
    BY <1>2
  <2>3. \A i \in T : g[i] \in Rules /\ IsManaged(g[i])
    BY <1>1, <1>4, <1>11
  <2> QED BY <1>5, <1>9, <1>11, <2>1, <2>2, <2>3 DEF Positioned
<1>13. n = 0 => g = f
  <2> SUFFICES ASSUME n = 0 PROVE g = f
    OBVIOUS
  <2>1. T = S
    <3>1. ASSUME NEW j \in S PROVE j \in T
      <4>1. j + n \in T /\ j \in Nat
        BY <1>3
      <4>2. j + n = j
        BY <4>1
      <4> QED BY <4>1, <4>2
    <3>2. ASSUME NEW i \in T PROVE i \in S
      <4>1. i - n \in S /\ i \in Nat
        BY <1>4
      <4>2. i - n = i
        BY <4>1
      <4> QED BY <4>1, <4>2
    <3> QED BY <3>1, <3>2
  <2>2. \A i \in S : f[i - n] = f[i]
    BY <1>1
  <2> QED BY <1>1, <1>2, <2>1, <2>2
<1>14. \A t \in 1..Cardinality(S) : Nth(T, t) = Nth(S, t) + n
  BY <1>9, <1>10
<1> QED BY <1>3, <1>4, <1>7, <1>9, <1>11, <1>12, <1>13, <1>14 DEF S, T, g

(* Above a rule of the profile there is no more than the profile's rules   *)
(* above it and the rules of other programs.                               *)
LEMMA NthBound ==
    ASSUME NEW o \in Seq(Rules), NEW t \in 1..Cardinality(Own(o))
    PROVE  Nth(Own(o), t) <= t + Cardinality(Rest(o))
<1> DEFINE S == Own(o)
           p == Nth(S, t)
           A == {j \in S : j <= p}
<1>1. /\ S \in SUBSET (1..Len(o)) /\ S \in SUBSET Nat /\ IsFiniteSet(S)
      /\ IsFiniteSet(Rest(o)) /\ Cardinality(Rest(o)) \in Nat
  BY OwnFacts
<1>2. p \in S /\ Cardinality(A) = t
  BY <1>1, NthLists DEF Rank
<1>3. A \in SUBSET S
  OBVIOUS
<1>4. 1..p \in SUBSET (A \cup Rest(o))
  <2>1. DOMAIN o = 1..Len(o) /\ Len(o) \in Nat
    OBVIOUS
  <2>2. ASSUME NEW j \in 1..p PROVE j \in A \/ j \in Rest(o)
    BY <1>1, <1>2, <2>1 DEF Rest
  <2> QED BY <2>2
<1> HIDE DEF S, p, A
<1>5. p \in Nat
  BY <1>1, <1>2
<1>6. IsFiniteSet(A)
  BY <1>1, <1>3, FS_Subset
<1>7. /\ IsFiniteSet(A \cup Rest(o))
      /\ Cardinality(A \cup Rest(o)) = t + Cardinality(Rest(o)) - Cardinality(A \cap Rest(o))
  BY <1>1, <1>2, <1>6, FS_Union
<1>8. Cardinality(A \cap Rest(o)) \in Nat
  <2>1. IsFiniteSet(A \cap Rest(o))
    BY <1>6, FS_Intersection
  <2> QED BY <2>1, FS_CardinalityType
<1>9. Cardinality(1..p) <= Cardinality(A \cup Rest(o))
  BY <1>4, <1>7, FS_Subset
<1>10. Cardinality(1..p) = p
  <2>1. Cardinality(1..p) = IF 1 > p THEN 0 ELSE p - 1 + 1
    BY <1>5, FS_Interval
  <2> QED BY <1>5, <2>1
<1>11. p <= t + Cardinality(Rest(o))
  BY <1>1, <1>5, <1>7, <1>8, <1>9, <1>10
<1> QED BY <1>11 DEF p, S

(* The next insertion goes below those that were made. *)
LEMMA FillingStep ==
    ASSUME NEW c \in Seq(Rules), NEW f, Positioned(f), NEW n \in Nat, \A i \in DOMAIN f : i > n,
           NEW q \in Seq(Commands), q # <<>>, Filling(c, q, f, n)
    PROVE  /\ q[1].op = "insert" /\ q[1].at > n /\ q[1].at \in Nat
           /\ q[1].rule \in Rules /\ IsManaged(q[1].rule)
           /\ \E t \in 0..Cardinality(DOMAIN f) - 1 :
                 q[1].at = Nth(DOMAIN f, t + 1) /\ Cardinality({i \in Own(c) : i > n}) = t
           /\ \A d : Inserted(c, q[1].at, q[1].rule, d) => Filling(d, Tail(q), f, n)
<1> DEFINE S == DOMAIN f
           m == Cardinality(S)
           L == InsertPositions(f)
           First(t) == {Nth(S, j) : j \in 1..t}
<1>1. S \in SUBSET Nat /\ IsFiniteSet(S)
  BY DEF Positioned
<1>2. /\ m \in Nat /\ L \in Seq(Commands) /\ Len(L) = m
      /\ \A j \in 1..m : L[j] = InsertCmd(Nth(S, j), f[Nth(S, j)])
                         /\ f[Nth(S, j)] \in Rules /\ IsManaged(f[Nth(S, j)])
  BY InsertPositionsFacts
<1>3. PICK t \in 0..m : Followed(L, t, q) /\ Obsolete(c, n) = [i \in First(t) |-> f[i]]
  BY DEF Filling
<1> HIDE DEF L
<1>4. t \in Nat /\ t + 1 \in 1..m /\ q[1] = L[t + 1] /\ Followed(L, t + 1, Tail(q))
  <2>1. t \in Nat
    BY <1>2
  <2>2. t + 1 \in 1..Len(L) /\ q[1] = L[t + 1] /\ Followed(L, t + 1, Tail(q))
    BY <1>2, <1>3, <2>1, FollowedTail
  <2> QED BY <1>2, <2>1, <2>2
<1> DEFINE p == Nth(S, t + 1)
<1>5. /\ \A j \in 1..m : Nth(S, j) \in S /\ Rank(S, Nth(S, j)) = j
      /\ \A i, j \in 1..m : i < j => Nth(S, i) < Nth(S, j)
  BY <1>1, NthLists
<1>6. p \in S /\ p \in Nat /\ p > n
  BY <1>1, <1>4, <1>5
<1>7. /\ q[1].op = "insert" /\ q[1].at = p /\ q[1].rule = f[p]
      /\ f[p] \in Rules /\ IsManaged(f[p])
  BY <1>2, <1>4, <1>6, CommandFacts, SMTT(30)
<1>8. DOMAIN Obsolete(c, n) = {i \in Own(c) : i > n}
  BY PositionedFacts
<1>9. {i \in Own(c) : i > n} = First(t) /\ \A i \in First(t) : c[i] = f[i]
  <2>1. DOMAIN [i \in First(t) |-> f[i]] = First(t)
    OBVIOUS
  <2>2. {i \in Own(c) : i > n} = First(t)
    BY <1>3, <1>8, <2>1
  <2>3. \A i \in {j \in Own(c) : j > n} : Obsolete(c, n)[i] = c[i]
    BY DEF Obsolete
  <2>4. \A i \in First(t) : Obsolete(c, n)[i] = f[i]
    BY <1>3
  <2> HIDE DEF First
  <2> QED BY <2>2, <2>3, <2>4
<1>10. ASSUME NEW j \in 1..t PROVE j \in 1..m /\ Nth(S, j) \in S /\ Nth(S, j) < p
  <2>1. j \in 1..m /\ j < t + 1
    BY <1>2, <1>4
  <2> QED BY <1>4, <1>5, <2>1
<1>11. \A i \in First(t) : i \in S /\ i < p
  BY <1>10
<1>12. Cardinality(First(t)) = t
  <2> DEFINE g == [j \in 1..t |-> Nth(S, j)]
  <2>1. g \in [1..t -> First(t)] /\ \A i \in First(t) : \E j \in 1..t : g[j] = i
    OBVIOUS
  <2>2. \A i, j \in 1..t : i < j => g[i] < g[j]
    BY <1>5, <1>10
  <2>3. First(t) \in SUBSET Nat
    BY <1>1, <1>11
  <2>4. Lists(g, t, First(t))
    BY <1>4, <2>1, <2>2 DEF Lists
  <2> HIDE DEF First, g
  <2> QED BY <1>4, <2>1, <2>3, <2>4, Listing
<1>13. ASSUME NEW d, Inserted(c, p, f[p], d) PROVE Filling(d, Tail(q), f, n)
  <2>1. /\ d \in Seq(Rules) /\ d[p] = f[p] /\ p \in 1..Len(c) + 1 /\ Len(c) \in Nat
        /\ \A i \in 1..p - 1 : d[i] = c[i]
        /\ \A i \in p..Len(c) : d[i + 1] = c[i]
    BY <1>13 DEF Inserted
  <2>2. Carried(c, p, Own(c), Own(d)) /\ p \in Own(d)
    BY <1>7, <1>13, CarriedOwn
  <2>3. /\ Own(c) \subseteq 1..Len(c) /\ Own(d) \subseteq 1..Len(c) + 1
        /\ \A i \in 1..p - 1 : i \in Own(d) <=> i \in Own(c)
        /\ \A i \in p..Len(c) : i + 1 \in Own(d) <=> i \in Own(c)
    BY <2>2 DEF Carried
  <2>4. First(t + 1) = First(t) \cup {p}
    <3>1. \A j \in 1..t + 1 : j \in 1..t \/ j = t + 1
      BY <1>4
    <3>2. \A j \in 1..t : j \in 1..t + 1
      BY <1>4
    <3>3. t + 1 \in 1..t + 1
      BY <1>4
    <3> QED BY <3>1, <3>2, <3>3
  <2> HIDE DEF First
  <2>5. ASSUME NEW i \in Own(d), i > n PROVE i \in First(t) \cup {p}
    <3>1. i \in 1..p - 1 \/ i = p \/ i - 1 \in p..Len(c)
      BY <2>1, <2>3
    <3>2. CASE i \in 1..p - 1
      BY <1>9, <2>3, <2>5, <3>2
    <3>3. CASE i - 1 \in p..Len(c)
      <4>1. i \in Nat
        BY <2>1, <2>3
      <4>2. (i - 1) + 1 = i /\ i - 1 > n
        BY <1>6, <2>1, <3>3, <4>1
      <4>3. i - 1 \in Own(c)
        BY <2>3, <3>3, <4>2
      <4>4. i - 1 \in First(t)
        BY <1>9, <4>2, <4>3
      <4> QED BY <1>6, <1>11, <3>3, <4>4
    <3> QED BY <3>1, <3>2, <3>3
  <2>6. ASSUME NEW i \in First(t) PROVE i \in Own(d) /\ i > n /\ d[i] = f[i]
    <3>1. i \in Own(c) /\ i > n /\ c[i] = f[i] /\ i < p
      BY <1>9, <1>11
    <3>2. i \in 1..p - 1
      BY <2>1, <2>3, <3>1
    <3> QED BY <2>1, <2>3, <3>1, <3>2
  <2>7. {i \in Own(d) : i > n} = First(t + 1) /\ \A i \in First(t + 1) : d[i] = f[i]
    BY <1>6, <2>1, <2>2, <2>4, <2>5, <2>6
  <2>8. Obsolete(d, n) = [i \in First(t + 1) |-> f[i]]
    BY <2>7 DEF Obsolete
  <2>9. t + 1 \in 0..m
    BY <1>2, <1>4
  <2> QED BY <1>4, <2>8, <2>9 DEF Filling, First, L
<1>14. t \in 0..m - 1
  BY <1>2, <1>4
<1> HIDE DEF First, S, p
<1> QED BY <1>6, <1>7, <1>9, <1>12, <1>13, <1>14 DEF S, p

(* The insertion is possible: what is above it in the snapshot is there. *)
LEMMA FillingFits ==
    ASSUME NEW c \in Seq(Rules), NEW o \in Seq(Rules), NEW n \in Nat,
           n <= Len(c), \A i \in 1..n : IsManaged(c[i]),
           Len(Others(o)) <= Len(Others(c)),
           NEW t \in 0..Cardinality(Own(o)) - 1, Cardinality({i \in Own(c) : i > n}) = t
    PROVE  Nth(Own(o), t + 1) + n <= Len(c) + 1
<1> DEFINE A == {i \in Own(c) : i > n}
<1>1. /\ Own(c) \in SUBSET (1..Len(c)) /\ IsFiniteSet(Own(c)) /\ Cardinality(Own(c)) \in Nat
      /\ Cardinality(Own(c)) + Cardinality(Rest(c)) = Len(c) /\ Cardinality(Rest(c)) \in Nat
      /\ Cardinality(Own(o)) \in Nat /\ Cardinality(Rest(o)) \in Nat
      /\ Own(o) \in SUBSET Nat /\ IsFiniteSet(Own(o))
  BY OwnFacts
<1>2. Cardinality(Rest(o)) <= Cardinality(Rest(c))
  BY ManagedFacts
<1>3. t + 1 \in 1..Cardinality(Own(o)) /\ t \in Nat
  BY <1>1
<1>4. Nth(Own(o), t + 1) \in Nat
  BY <1>1, <1>3, NthLists
<1>5. Nth(Own(o), t + 1) <= (t + 1) + Cardinality(Rest(o))
  BY <1>3, NthBound
<1>6. Own(c) = A \cup 1..n /\ A \cap 1..n = {}
  <2>1. DOMAIN c = 1..Len(c) /\ Len(c) \in Nat
    OBVIOUS
  <2>2. ASSUME NEW i \in 1..n PROVE i \in Own(c) /\ ~ (i > n)
    BY <2>1 DEF Own
  <2>3. ASSUME NEW i \in Own(c) PROVE i \in A \/ i \in 1..n
    BY <1>1, <2>1
  <2> QED BY <2>2, <2>3
<1>7. A \in SUBSET Own(c)
  OBVIOUS
<1> HIDE DEF A
<1>8. IsFiniteSet(A)
  BY <1>1, <1>7, FS_Subset
<1>9. IsFiniteSet(1..n) /\ Cardinality(1..n) = n
  <2>1. IsFiniteSet(1..n) /\ Cardinality(1..n) = IF 1 > n THEN 0 ELSE n - 1 + 1
    BY FS_Interval
  <2> QED BY <2>1
<1>10. Cardinality(Own(c)) = Cardinality(A) + n - 0
  <2>1. Cardinality(A \cup 1..n) = Cardinality(A) + Cardinality(1..n) - Cardinality(A \cap 1..n)
    BY <1>8, <1>9, FS_Union
  <2> QED BY <1>6, <1>9, <2>1, FS_EmptySet
<1>11. Cardinality(A) = t
  BY DEF A
<1> QED BY <1>1, <1>2, <1>3, <1>4, <1>5, <1>10, <1>11, SMTT(30)

(* All insertions are made. *)
LEMMA FillingEnd ==
    ASSUME NEW c \in Seq(Rules), NEW f, Positioned(f), NEW n \in Nat, Filling(c, <<>>, f, n)
    PROVE  Obsolete(c, n) = f
<1> DEFINE S == DOMAIN f
           m == Cardinality(S)
           First(t) == {Nth(S, j) : j \in 1..t}
<1>1. S \in SUBSET Nat /\ IsFiniteSet(S) /\ f = [i \in S |-> f[i]]
  BY DEF Positioned
<1>2. m \in Nat /\ Len(InsertPositions(f)) = m
  BY InsertPositionsFacts
<1>3. PICK t \in 0..m : Followed(InsertPositions(f), t, <<>>) /\ Obsolete(c, n) = [i \in First(t) |-> f[i]]
  BY DEF Filling
<1>4. t = m
  <2>1. Len(InsertPositions(f)) = t + Len(<<>>) /\ Len(<<>>) = 0
    BY <1>3 DEF Followed
  <2> QED BY <1>2, <2>1
<1>5. First(m) = S
  <2>1. /\ \A j \in 1..m : Nth(S, j) \in S
        /\ \A i \in S : Rank(S, i) \in 1..m /\ Nth(S, Rank(S, i)) = i
    BY <1>1, NthLists
  <2> QED BY <2>1
<1> HIDE DEF First, S
<1>6. Obsolete(c, n) = [i \in S |-> f[i]]
  BY <1>3, <1>4, <1>5
<1> QED BY <1>1, <1>6

(* With no rule of the profile below the first n, all insertions are to be *)
(* made.                                                                   *)
LEMMA FillingStart ==
    ASSUME NEW c \in Seq(Rules), NEW f, Positioned(f), NEW n \in Nat, NEW q \in Seq(Commands),
           \A i \in Own(c) : ~ (i > n), Followed(q, 0, InsertPositions(f))
    PROVE  Filling(c, q, f, n)
<1> DEFINE r == InsertPositions(f)
           m == Cardinality(DOMAIN f)
<1>1. m \in Nat /\ r \in Seq(Commands) /\ Len(r) = m
  BY InsertPositionsFacts
<1>2. Len(q) = Len(r) /\ \A j \in 1..Len(r) : q[j] = r[j]
  <2>1. Len(q) = 0 + Len(r) /\ \A j \in 1..Len(r) : q[0 + j] = r[j]
    BY DEF Followed
  <2>2. \A j \in 1..Len(r) : 0 + j = j
    BY <1>1
  <2> QED BY <1>1, <2>1, <2>2
<1> HIDE DEF r
<1>3. q = r
  BY <1>1, <1>2, SeqEqual
<1>4. Followed(r, 0, q)
  BY <1>1, <1>3 DEF Followed
<1>5. {i \in Own(c) : i > n} = {} /\ {Nth(DOMAIN f, j) : j \in 1..0} = {}
  OBVIOUS
<1>6. Obsolete(c, n) = [i \in {Nth(DOMAIN f, j) : j \in 1..0} |-> f[i]]
  BY <1>5 DEF Obsolete
<1>7. 0 \in 0..m
  BY <1>1
<1> QED BY <1>4, <1>6, <1>7 DEF Filling, r

-----------------------------------------------------------------------------
(* Clearing, and putting the candidate on top *)

(* clear() goes through the rules it read, whatever follows. *)
LEMMA ClearingStart ==
    ASSUME NEW c \in Seq(Rules), NEW r \in Seq(Commands)
    PROVE  /\ ClearManaged(c) \o r \in Seq(Commands)
           /\ Clearing(c, ClearManaged(c) \o r)
           /\ Followed(ClearManaged(c) \o r, Len(Managed(c)), r)
<1> DEFINE a == ClearManaged(c)
           q == a \o r
<1>1. /\ a \in Seq(Commands) /\ Len(a) = Len(Managed(c)) /\ Len(Managed(c)) \in Nat
      /\ \A n \in 1..Len(Managed(c)) : a[n] = DeleteRuleCmd(Managed(c)[n])
  BY ClearManagedFacts
<1> HIDE DEF a
<1>2. /\ q \in Seq(Commands) /\ Len(q) = Len(a) + Len(r)
      /\ \A i \in 1..Len(a) : q[i] = a[i]
      /\ Followed(q, Len(a), r)
  BY <1>1, ConcatFollowed
<1>3. Len(Managed(c)) <= Len(q)
  <2>1. Len(r) \in Nat
    OBVIOUS
  <2> QED BY <1>1, <1>2, <2>1
<1> HIDE DEF q
<1>4. Clearing(c, q)
  BY <1>1, <1>2, <1>3 DEF Clearing
<1> QED BY <1>1, <1>2, <1>4 DEF q, a

(* The first occurrence of the first rule is the first rule. *)
LEMMA ClearingStep ==
    ASSUME NEW c \in Seq(Rules), NEW q \in Seq(Commands), Clearing(c, q), Len(Managed(c)) # 0
    PROVE  /\ q[1].op = "delete_rule" /\ Contains(c, q[1].rule) /\ IsManaged(q[1].rule)
           /\ LET e == RemoveFirst(c, q[1].rule) IN
              /\ \E p \in 1..Len(c) : Inserted(e, p, q[1].rule, c)
              /\ Len(Managed(e)) = Len(Managed(c)) - 1 /\ Clearing(e, Tail(q))
<1> DEFINE S == Own(c)
           r == Managed(c)[1]
           e == RemoveFirst(c, r)
           m == Len(Managed(c))
<1>1. /\ Managed(c) \in Seq(Rules) /\ m = Cardinality(S)
      /\ \A n \in 1..m : Nth(S, n) \in S /\ Managed(c)[n] = c[Nth(S, n)] /\ IsManaged(Managed(c)[n])
  BY ManagedFacts
<1>2. m \in Nat /\ 1 \in 1..m
  BY <1>1
<1>3. r \in Rules /\ IsManaged(r) /\ Nth(S, 1) \in S /\ c[Nth(S, 1)] = r
  BY <1>1, <1>2
<1>4. S \in SUBSET (1..Len(c)) /\ S \in SUBSET Nat /\ IsFiniteSet(S)
  BY OwnFacts
<1>5. m <= Len(q) /\ \A i \in 1..m : q[i] = DeleteRuleCmd(Managed(c)[i])
  BY DEF Clearing
<1>6. q[1].op = "delete_rule" /\ q[1].rule = r
  BY <1>2, <1>3, <1>5, CommandFacts
<1>7. Contains(c, r)
  BY <1>3, <1>4 DEF Contains
<1>8. PICK p \in 1..Len(c) :
         /\ c[p] = r /\ \A i \in 1..p - 1 : c[i] # r
         /\ Inserted(e, p, r, c)
  BY <1>7, RemoveFirstRemoves
<1>9. p \in S
  BY <1>3, <1>8 DEF Own
<1>10. ASSUME NEW i \in S PROVE p <= i
  <2>1. /\ \A j \in S : Rank(S, j) \in 1..m /\ Nth(S, Rank(S, j)) = j
        /\ \A j, k \in 1..m : j < k => Nth(S, j) < Nth(S, k)
    BY <1>1, <1>4, NthLists
  <2>2. Rank(S, i) \in 1..m /\ Nth(S, Rank(S, i)) = i /\ (Rank(S, i) = 1 \/ 1 < Rank(S, i))
    BY <1>2, <2>1
  <2>3. Nth(S, 1) <= i
    BY <1>2, <1>3, <1>4, <2>1, <2>2
  <2>4. ~ (Nth(S, 1) \in 1..p - 1)
    BY <1>3, <1>8
  <2>5. Nth(S, 1) \in 1..Len(c) /\ i \in 1..Len(c)
    BY <1>3, <1>4
  <2> QED BY <2>3, <2>4, <2>5
<1> HIDE DEF e, r
<1>11. e \in Seq(Rules) /\ Len(c) = Len(e) + 1 /\ Carried(e, p, Own(e), S)
  BY <1>8, CarriedOwn DEF Inserted
<1>12. ASSUME NEW i \in Own(e) PROVE p <= i
  <2>1. /\ Own(e) \subseteq 1..Len(e) /\ \A j \in 1..p - 1 : j \in S <=> j \in Own(e)
    BY <1>11 DEF Carried
  <2>2. i \in Nat /\ i >= 1 /\ (i \in 1..p - 1 => i \in S)
    BY <1>11, <2>1
  <2> QED BY <1>10, <2>2
<1>13. /\ Cardinality(Own(e)) \in Nat /\ Cardinality(S) = Cardinality(Own(e)) + 1
       /\ \A n \in 1..Cardinality(Own(e)) : InOrder(c, S)[n + 1] = InOrder(e, Own(e))[n]
  <2> DEFINE T == Own(e)
  <2>1. Carried(e, p, T, S) /\ \A i \in T : p <= i
    BY <1>11, <1>12
  <2> HIDE DEF S, T
  <2>2. /\ Cardinality(T) \in Nat /\ Cardinality(S) = Cardinality(T) + 1
        /\ \A n \in 1..Cardinality(T) : InOrder(c, S)[n + 1] = InOrder(e, T)[n]
    BY <1>8, <1>9, <2>1, CarriedFirst
  <2> QED BY <2>2 DEF T
<1>14. Len(Managed(e)) = Cardinality(Own(e))
  BY <1>11, ManagedFacts
<1>15. Len(Managed(e)) = m - 1 /\ \A n \in 1..m - 1 : Managed(c)[n + 1] = Managed(e)[n]
  BY <1>1, <1>13, <1>14 DEF Managed
<1>16. Clearing(e, Tail(q))
  <2>1. q # <<>>
    BY <1>2, <1>5
  <2>2. Len(Tail(q)) = Len(q) - 1 /\ \A i \in 1..Len(q) - 1 : Tail(q)[i] = q[i + 1]
    BY <2>1, HeadTailProperties
  <2>3. \A i \in 1..m - 1 : i \in 1..Len(q) - 1 /\ i + 1 \in 1..m
    BY <1>2, <1>5
  <2>4. m - 1 <= Len(q) - 1
    BY <1>2, <1>5
  <2> QED BY <1>5, <1>15, <2>2, <2>3, <2>4 DEF Clearing
<1> QED BY <1>3, <1>6, <1>7, <1>8, <1>15, <1>16 DEF e

(* A chain without the profile's rules has none below any position. *)
LEMMA ClearingEnd ==
    ASSUME NEW c \in Seq(Rules), Len(Managed(c)) = 0
    PROVE  Own(c) = {}
BY OwnFacts, ManagedFacts, FS_EmptySet

(* The candidate is about to be put on top. *)
LEMMA StackingStart ==
    ASSUME NEW c \in Seq(Rules), NEW cand \in Seq(Rules), NEW q \in Seq(Commands),
           Len(Managed(c)) = 0, Followed(q, 0, InsertOnTop(cand))
    PROVE  Stacking(c, q, cand)
<1> DEFINE r == InsertOnTop(cand)
<1>1. r \in Seq(Commands) /\ Len(r) = Len(cand) /\ Len(cand) \in Nat
  BY InsertOnTopFacts
<1>2. Len(q) = Len(r) /\ \A j \in 1..Len(r) : q[j] = r[j]
  <2>1. Len(q) = 0 + Len(r) /\ \A j \in 1..Len(r) : q[0 + j] = r[j]
    BY DEF Followed
  <2>2. \A j \in 1..Len(r) : 0 + j = j
    BY <1>1
  <2> QED BY <1>1, <2>1, <2>2
<1> HIDE DEF r
<1>3. q = r
  BY <1>1, <1>2, SeqEqual
<1>4. Followed(r, 0, q)
  BY <1>1, <1>3 DEF Followed
<1>5. 0 \in 0..Len(cand)
  BY <1>1
<1> QED BY <1>4, <1>5 DEF Stacking, r

(* One more rule of the candidate is on top. *)
LEMMA StackingStep ==
    ASSUME NEW c \in Seq(Rules), NEW cand \in Seq(Rules), \A i \in 1..Len(cand) : IsManaged(cand[i]),
           NEW q \in Seq(Commands), q # <<>>, Stacking(c, q, cand)
    PROVE  /\ q[1].op = "insert" /\ q[1].at = 1 /\ q[1].rule \in Rules /\ IsManaged(q[1].rule)
           /\ \A d : Inserted(c, 1, q[1].rule, d) => Stacking(d, Tail(q), cand)
<1> DEFINE L == InsertOnTop(cand)
           m == Len(cand)
<1>1. /\ L \in Seq(Commands) /\ Len(L) = m /\ m \in Nat
      /\ \A i \in 1..m : L[i] = InsertCmd(1, cand[m + 1 - i]) /\ m + 1 - i \in 1..m
  BY InsertOnTopFacts
<1>2. PICK t \in 0..m :
         /\ Followed(L, t, q) /\ Len(Managed(c)) = t
         /\ \A i \in 1..t : Managed(c)[i] = cand[m - t + i]
  BY DEF Stacking
<1> HIDE DEF L
<1>3. t \in Nat /\ t + 1 \in 1..m /\ q[1] = L[t + 1] /\ Followed(L, t + 1, Tail(q))
  <2>1. t \in Nat
    BY <1>1
  <2> QED BY <1>1, <1>2, <2>1, FollowedTail
<1> DEFINE r == cand[m - t]
<1>4. r \in Rules /\ IsManaged(r) /\ m - t \in 1..m
  BY <1>1, <1>3, SMTT(30)
<1>5. q[1] = InsertCmd(1, r)
  <2>1. m + 1 - (t + 1) = m - t
    BY <1>1, <1>3
  <2> QED BY <1>1, <1>3, <2>1
<1>6. q[1].op = "insert" /\ q[1].at = 1 /\ q[1].rule = r
  BY <1>4, <1>5, CommandFacts
<1>7. ASSUME NEW d, Inserted(c, 1, r, d) PROVE Stacking(d, Tail(q), cand)
  <2>1. Carried(c, 1, Own(c), Own(d)) /\ 1 \in Own(d)
    BY <1>4, <1>7, CarriedOwn
  <2>2. \A i \in Own(c) : 1 <= i
    BY OwnFacts
  <2>3. /\ Cardinality(Own(c)) \in Nat /\ Cardinality(Own(d)) = Cardinality(Own(c)) + 1
        /\ InOrder(d, Own(d))[1] = r
        /\ \A n \in 1..Cardinality(Own(c)) : InOrder(d, Own(d))[n + 1] = InOrder(c, Own(c))[n]
    BY <1>7, <2>1, <2>2, CarriedFirst, SMTT(30)
  <2>4. Len(Managed(c)) = Cardinality(Own(c)) /\ Len(Managed(d)) = Cardinality(Own(d))
    <3>1. d \in Seq(Rules)
      BY <1>7 DEF Inserted
    <3> QED BY <3>1, ManagedFacts
  <2>5. Len(Managed(d)) = t + 1 /\ Managed(d)[1] = r
        /\ \A n \in 1..t : Managed(d)[n + 1] = Managed(c)[n]
    BY <1>2, <2>3, <2>4 DEF Managed
  <2>6. ASSUME NEW i \in 1..t + 1 PROVE Managed(d)[i] = cand[m - (t + 1) + i]
    <3>1. CASE i = 1
      <4>1. m - (t + 1) + 1 = m - t
        BY <1>1, <1>3
      <4> QED BY <2>5, <3>1, <4>1
    <3>2. CASE i # 1
      <4>1. i - 1 \in 1..t /\ (i - 1) + 1 = i /\ m - (t + 1) + i = m - t + (i - 1)
        BY <1>1, <1>3, <3>2
      <4>2. Managed(d)[(i - 1) + 1] = Managed(c)[i - 1]
        BY ONLY <2>5, <4>1
      <4>3. Managed(c)[i - 1] = cand[m - t + (i - 1)]
        BY ONLY <1>2, <4>1
      <4> QED BY ONLY <4>1, <4>2, <4>3
    <3> QED BY <3>1, <3>2
  <2>7. t + 1 \in 0..m
    BY <1>1, <1>3
  <2> QED BY <1>3, <2>5, <2>6, <2>7 DEF Stacking, L
<1> QED BY <1>4, <1>6, <1>7

(* The whole candidate is on top. *)
LEMMA StackingEnd ==
    ASSUME NEW c \in Seq(Rules), NEW cand \in Seq(Rules), Stacking(c, <<>>, cand)
    PROVE  Managed(c) = cand
<1>1. Len(InsertOnTop(cand)) = Len(cand) /\ Len(cand) \in Nat
  BY InsertOnTopFacts
<1>2. PICK t \in 0..Len(cand) :
         /\ Followed(InsertOnTop(cand), t, <<>>) /\ Len(Managed(c)) = t
         /\ \A i \in 1..t : Managed(c)[i] = cand[Len(cand) - t + i]
  BY DEF Stacking
<1>3. t = Len(cand)
  <2>1. Len(InsertOnTop(cand)) = t + Len(<<>>) /\ Len(<<>>) = 0
    BY <1>2 DEF Followed
  <2> QED BY <1>1, <2>1
<1>4. \A i \in 1..Len(cand) : Len(cand) - Len(cand) + i = i
  BY <1>1
<1>5. Managed(c) \in Seq(Rules)
  BY ManagedFacts
<1> QED BY <1>2, <1>3, <1>4, <1>5, SeqEqual

-----------------------------------------------------------------------------
(* What one rule more or less means for the shape of a chain *)

(* prepare inserts one more rule of the candidate at the head. *)
LEMMA StackedPush ==
    ASSUME NEW c \in Seq(Rules), NEW k, NEW cand \in Seq(Rules), NEW b \in Seq(Rules),
           Stacked(c, k, cand, b), k < Len(cand), NEW d, Inserted(c, 1, cand[Len(cand) - k], d)
    PROVE  Stacked(d, k + 1, cand, b) /\ Len(d) = Len(c) + 1
<1> DEFINE m == Len(cand)
<1>1. m \in Nat /\ Len(b) \in Nat /\ Len(c) \in Nat
  OBVIOUS
<1>2. /\ k \in 0..m /\ k + Len(b) <= Len(c)
      /\ \A i \in 1..k : c[i] = cand[m - k + i]
      /\ \A i \in 1..Len(b) : c[k + i] = b[i]
  BY DEF Stacked
<1>3. Len(d) = Len(c) + 1 /\ d[1] = cand[m - k] /\ \A i \in 1..Len(c) : d[i + 1] = c[i]
  BY DEF Inserted
<1> HIDE DEF m
<1>4. ASSUME NEW i \in 1..k + 1 PROVE d[i] = cand[m - (k + 1) + i]
  <2>1. CASE i = 1
    <3>1. m - (k + 1) + 1 = m - k
      BY <1>1, <1>2
    <3> QED BY <1>3, <2>1, <3>1
  <2>2. CASE i # 1
    <3>1. i - 1 \in 1..k /\ i - 1 \in 1..Len(c) /\ (i - 1) + 1 = i
          /\ m - (k + 1) + i = m - k + (i - 1)
      BY <1>1, <1>2, <2>2
    <3>2. d[(i - 1) + 1] = c[i - 1]
      BY ONLY <1>3, <3>1
    <3>3. c[i - 1] = cand[m - k + (i - 1)]
      BY ONLY <1>2, <3>1
    <3> QED BY ONLY <3>1, <3>2, <3>3
  <2> QED BY <2>1, <2>2
<1>5. ASSUME NEW i \in 1..Len(b) PROVE d[(k + 1) + i] = b[i]
  <2>1. k + i \in 1..Len(c) /\ (k + i) + 1 = (k + 1) + i
    BY <1>1, <1>2
  <2> QED BY <1>2, <1>3, <2>1
<1>6. k + 1 \in 0..m /\ (k + 1) + Len(b) <= Len(d)
  BY <1>1, <1>2, <1>3 DEF m
<1> QED BY <1>3, <1>4, <1>5, <1>6 DEF Stacked, m

(* A deletion at the head takes one rule of the candidate. *)
LEMMA StackedPop ==
    ASSUME NEW c \in Seq(Rules), NEW k, NEW cand \in Seq(Rules), NEW b \in Seq(Rules),
           Stacked(c, k, cand, b), k # 0, NEW e, Inserted(e, 1, c[1], c)
    PROVE  Stacked(e, k - 1, cand, b) /\ Len(c) = Len(e) + 1 /\ c[1] = cand[Len(cand) - k + 1]
<1> DEFINE m == Len(cand)
<1>1. m \in Nat /\ Len(b) \in Nat /\ Len(c) \in Nat /\ Len(e) \in Nat
  BY DEF Inserted
<1>2. /\ k \in 0..m /\ k + Len(b) <= Len(c)
      /\ \A i \in 1..k : c[i] = cand[m - k + i]
      /\ \A i \in 1..Len(b) : c[k + i] = b[i]
  BY DEF Stacked
<1>3. Len(c) = Len(e) + 1 /\ \A i \in 1..Len(e) : c[i + 1] = e[i]
  BY DEF Inserted
<1> HIDE DEF m
<1>4. ASSUME NEW i \in 1..k - 1 PROVE e[i] = cand[m - (k - 1) + i]
  <2>1. i \in 1..Len(e) /\ i + 1 \in 1..k /\ m - (k - 1) + i = m - k + (i + 1)
    BY <1>1, <1>2, <1>3
  <2> QED BY <1>2, <1>3, <2>1
<1>5. ASSUME NEW i \in 1..Len(b) PROVE e[(k - 1) + i] = b[i]
  <2>1. (k - 1) + i \in 1..Len(e) /\ ((k - 1) + i) + 1 = k + i
    BY <1>1, <1>2, <1>3
  <2> QED BY <1>2, <1>3, <2>1
<1>6. k - 1 \in 0..m /\ (k - 1) + Len(b) <= Len(e) /\ 1 \in 1..k
  BY <1>1, <1>2, <1>3
<1> QED BY <1>2, <1>3, <1>4, <1>5, <1>6 DEF Stacked, m

(* A rule appended by another program changes none of the shapes. *)
LEMMA AppendSame ==
    ASSUME NEW c \in Seq(Rules), NEW r, ~IsManaged(r), NEW d, Inserted(c, Len(c) + 1, r, d)
    PROVE  /\ d \in Seq(Rules) /\ Len(d) = Len(c) + 1 /\ \A i \in 1..Len(c) : d[i] = c[i]
           /\ Own(d) = Own(c) /\ ManagedPositions(d) = ManagedPositions(c)
           /\ Managed(d) = Managed(c)
           /\ \A o \in Seq(Rules) : Extends(o, c) => Extends(o, d)
<1>1. /\ d \in Seq(Rules) /\ Len(c) \in Nat /\ Len(d) = Len(c) + 1 /\ d[Len(c) + 1] = r
      /\ \A i \in 1..Len(c) : d[i] = c[i]
  BY DEF Inserted
<1>2. DOMAIN c = 1..Len(c) /\ DOMAIN d = 1..Len(c) + 1
  BY <1>1
<1>3. \A i \in 1..Len(c) + 1 : i \in 1..Len(c) \/ i = Len(c) + 1
  BY <1>1
<1>4. \A i \in 1..Len(c) : i \in 1..Len(c) + 1
  BY <1>1
<1>5. Own(d) = Own(c)
  BY <1>1, <1>2, <1>3, <1>4 DEF Own
<1>6. \A i \in Own(c) : d[i] = c[i]
  BY <1>1, <1>2 DEF Own
<1>7. ManagedPositions(d) = ManagedPositions(c)
  BY <1>5, <1>6 DEF ManagedPositions
<1>8. Managed(d) = Managed(c)
  BY OneKindMoves
<1>9. ASSUME NEW o \in Seq(Rules), Extends(o, c) PROVE Extends(o, d)
  <2>1. /\ Len(o) <= Len(c) /\ Len(o) \in Nat
        /\ \A i \in 1..Len(o) : c[i] = o[i]
        /\ \A i \in Len(o) + 1..Len(c) : ~IsManaged(c[i])
    BY <1>9 DEF Extends
  <2>2. Len(o) <= Len(d) /\ \A i \in 1..Len(o) : i \in 1..Len(c)
    BY <1>1, <2>1
  <2>3. ASSUME NEW i \in Len(o) + 1..Len(d) PROVE ~IsManaged(d[i])
    <3>1. i = Len(c) + 1 \/ (i \in Len(o) + 1..Len(c) /\ i \in 1..Len(c))
      BY <1>1, <2>1
    <3> QED BY <1>1, <2>1, <3>1
  <2> QED BY <1>1, <2>1, <2>2, <2>3 DEF Extends
<1> QED BY <1>1, <1>5, <1>7, <1>8, <1>9

(* The same for what is stacked on the chain. *)
LEMMA StackedAppend ==
    ASSUME NEW c \in Seq(Rules), NEW k, NEW cand \in Seq(Rules), NEW b \in Seq(Rules),
           Stacked(c, k, cand, b), NEW d, Len(d) = Len(c) + 1, \A i \in 1..Len(c) : d[i] = c[i]
    PROVE  Stacked(d, k, cand, b)
<1>1. Len(cand) \in Nat /\ Len(b) \in Nat /\ Len(c) \in Nat
  OBVIOUS
<1>2. /\ k \in 0..Len(cand) /\ k + Len(b) <= Len(c)
      /\ \A i \in 1..k : c[i] = cand[Len(cand) - k + i]
      /\ \A i \in 1..Len(b) : c[k + i] = b[i]
  BY DEF Stacked
<1>3. \A i \in 1..k : i \in 1..Len(c)
  BY <1>1, <1>2
<1>4. \A i \in 1..Len(b) : k + i \in 1..Len(c)
  BY <1>1, <1>2
<1>5. k + Len(b) <= Len(d)
  BY <1>1, <1>2
<1> QED BY <1>2, <1>3, <1>4, <1>5 DEF Stacked

(* A rule put in, or taken away, below the candidate leaves it whole. *)
LEMMA ToppedBelow ==
    ASSUME NEW c, NEW p, NEW r, NEW d, Inserted(c, p, r, d), NEW m \in Nat,
           NEW cand \in Seq(Rules), p > m + Len(cand)
    PROVE  Topped(c, m, cand) <=> Topped(d, m, cand)
<1>1. /\ Len(c) \in Nat /\ Len(cand) \in Nat /\ p \in 1..Len(c) + 1 /\ Len(d) = Len(c) + 1
      /\ \A i \in 1..p - 1 : d[i] = c[i]
  BY DEF Inserted
<1>2. \A i \in 1..m : i \in 1..p - 1
  BY <1>1
<1>3. \A i \in 1..Len(cand) : m + i \in 1..p - 1
  BY <1>1
<1>4. m + Len(cand) <= Len(c) /\ m + Len(cand) <= Len(d)
  BY <1>1
<1> QED BY <1>1, <1>2, <1>3, <1>4 DEF Topped

(* Another program's rule goes above the candidate. *)
LEMMA ToppedAbove ==
    ASSUME NEW c, NEW r, ~IsManaged(r), NEW d, Inserted(c, 1, r, d), NEW m \in Nat,
           NEW cand \in Seq(Rules), Topped(c, m, cand)
    PROVE  Topped(d, m + 1, cand)
<1>1. /\ Len(c) \in Nat /\ Len(cand) \in Nat /\ Len(d) = Len(c) + 1 /\ d[1] = r
      /\ \A i \in 1..Len(c) : d[i + 1] = c[i]
  BY DEF Inserted
<1>2. /\ m + Len(cand) <= Len(c)
      /\ \A i \in 1..m : ~IsManaged(c[i])
      /\ \A i \in 1..Len(cand) : c[m + i] = cand[i]
  BY DEF Topped
<1>3. ASSUME NEW i \in 1..m + 1 PROVE ~IsManaged(d[i])
  <2>1. i = 1 \/ (i - 1 \in 1..m /\ i - 1 \in 1..Len(c) /\ (i - 1) + 1 = i)
    BY <1>1, <1>2
  <2> QED BY <1>1, <1>2, <2>1
<1>4. ASSUME NEW i \in 1..Len(cand) PROVE d[(m + 1) + i] = cand[i]
  <2>1. m + i \in 1..Len(c) /\ (m + i) + 1 = (m + 1) + i
    BY <1>1, <1>2
  <2> QED BY <1>1, <1>2, <2>1
<1>5. (m + 1) + Len(cand) <= Len(d)
  BY <1>1, <1>2
<1> QED BY <1>3, <1>4, <1>5 DEF Topped

-----------------------------------------------------------------------------
(* Ports that are closed to the stranger *)

(* The first rule that matches the stranger is a DROP. *)
LEMMA ClosedMeans ==
    ASSUME NEW c \in Seq(Rules), NEW p
    PROVE  ~Accepts(c, Stranger, p) <=> Closed(c, p)
<1> DEFINE M == Matching(c, Stranger, p)
<1>1. Len(c) \in Nat /\ DOMAIN c = 1..Len(c)
  OBVIOUS
<1>2. M = {i \in DOMAIN c : (c[i].tag = "drop" /\ c[i].port = p) \/ Opens(c[i], p)}
  BY DEF Matching, Opens
<1>3. M \subseteq Nat
  BY <1>1, <1>2
<1>4. Accepts(c, Stranger, p) <=> (M = {} \/ c[Min(M)].tag = "allow")
  BY DEF Accepts
<1> HIDE DEF M
<1>5. ASSUME ~Accepts(c, Stranger, p) PROVE Closed(c, p)
  <2>1. M # {} /\ c[Min(M)].tag # "allow"
    BY <1>4, <1>5
  <2>2. Min(M) \in M /\ \A x \in M : Min(M) <= x
    BY <1>3, <2>1, MinPosition
  <2>3. Min(M) \in DOMAIN c /\ c[Min(M)].tag = "drop" /\ c[Min(M)].port = p
    BY <1>2, <2>1, <2>2 DEF Opens
  <2>4. ASSUME NEW j \in 1..Min(M) - 1 PROVE ~Opens(c[j], p)
    <3>1. j \in DOMAIN c /\ ~ (Min(M) <= j)
      BY <1>1, <2>3
    <3>2. j \notin M
      BY <2>2, <3>1
    <3> QED BY <1>2, <3>1, <3>2
  <2> QED BY <2>3, <2>4 DEF Closed
<1>6. ASSUME Closed(c, p) PROVE ~Accepts(c, Stranger, p)
  <2>1. PICK i \in DOMAIN c : c[i].tag = "drop" /\ c[i].port = p /\ \A j \in 1..i - 1 : ~Opens(c[j], p)
    BY <1>6 DEF Closed
  <2>2. i \in M
    BY <1>2, <2>1
  <2>3. Min(M) \in M /\ Min(M) <= i
    BY <1>3, <2>2, MinPosition
  <2>4. Min(M) \in DOMAIN c /\ (Min(M) = i \/ Min(M) \in 1..i - 1)
    BY <1>1, <1>2, <2>1, <2>3
  <2>5. c[Min(M)].tag = "drop"
    BY <1>2, <2>1, <2>3, <2>4
  <2>6. "drop" # "allow"
    OBVIOUS
  <2> QED BY <1>4, <2>2, <2>5, <2>6
<1> QED BY <1>5, <1>6

(* A rule that does not let the stranger in may go anywhere. *)
LEMMA ClosedInserted ==
    ASSUME NEW c, NEW x, NEW r, NEW d, Inserted(c, x, r, d), NEW p, ~Opens(r, p), Closed(c, p)
    PROVE  Closed(d, p)
<1>1. /\ c \in Seq(Rules) /\ d \in Seq(Rules) /\ Len(c) \in Nat /\ x \in 1..Len(c) + 1
      /\ Len(d) = Len(c) + 1 /\ d[x] = r
      /\ \A i \in 1..x - 1 : d[i] = c[i]
      /\ \A i \in x..Len(c) : d[i + 1] = c[i]
  BY DEF Inserted
<1>2. DOMAIN c = 1..Len(c) /\ DOMAIN d = 1..Len(c) + 1
  BY <1>1
<1>3. PICK i \in 1..Len(c) : c[i].tag = "drop" /\ c[i].port = p /\ \A j \in 1..i - 1 : ~Opens(c[j], p)
  BY <1>2 DEF Closed
<1>4. CASE i < x
  <2>1. i \in 1..x - 1 /\ i \in 1..Len(c) + 1
    BY <1>1, <1>4
  <2>2. \A j \in 1..i - 1 : j \in 1..x - 1
    BY <1>1, <1>4
  <2> QED BY <1>1, <1>2, <1>3, <2>1, <2>2 DEF Closed
<1>5. CASE ~ (i < x)
  <2>1. i \in x..Len(c) /\ i + 1 \in 1..Len(c) + 1
    BY <1>1, <1>5
  <2>2. ASSUME NEW j \in 1..(i + 1) - 1 PROVE ~Opens(d[j], p)
    <3>1. j \in 1..x - 1 \/ j = x \/ (j - 1 \in x..Len(c) /\ (j - 1) + 1 = j)
      BY <1>1
    <3>2. CASE j \in 1..x - 1
      <4>1. j \in 1..i - 1
        BY <1>1, <1>5, <3>2
      <4> QED BY <1>1, <1>3, <3>2, <4>1
    <3>3. CASE j = x
      BY <1>1, <3>3
    <3>4. CASE j - 1 \in x..Len(c) /\ (j - 1) + 1 = j
      <4>1. j - 1 \in 1..i - 1
        BY <1>1, <3>4
      <4> QED BY <1>1, <1>3, <3>4, <4>1
    <3> QED BY <3>1, <3>2, <3>3, <3>4
  <2> QED BY <1>1, <1>2, <1>3, <2>1, <2>2 DEF Closed
<1> QED BY <1>4, <1>5

(* A closed chain stays closed under part of a candidate. *)
LEMMA ClosedStacked ==
    ASSUME NEW c \in Seq(Rules), NEW k, NEW cand \in Seq(Rules), NEW b \in Seq(Rules), NEW p,
           Stacked(c, k, cand, b), Closed(b, p), \A i \in 1..Len(cand) : ~Opens(cand[i], p)
    PROVE  Closed(c, p)
<1>1. Len(cand) \in Nat /\ Len(b) \in Nat /\ Len(c) \in Nat /\ DOMAIN b = 1..Len(b)
      /\ DOMAIN c = 1..Len(c)
  OBVIOUS
<1>2. /\ k \in 0..Len(cand) /\ k + Len(b) <= Len(c)
      /\ \A i \in 1..k : c[i] = cand[Len(cand) - k + i]
      /\ \A i \in 1..Len(b) : c[k + i] = b[i]
  BY DEF Stacked
<1>3. PICK i \in 1..Len(b) : b[i].tag = "drop" /\ b[i].port = p /\ \A j \in 1..i - 1 : ~Opens(b[j], p)
  BY <1>1 DEF Closed
<1>4. k + i \in 1..Len(c) /\ c[k + i] = b[i]
  BY <1>1, <1>2
<1>5. ASSUME NEW j \in 1..(k + i) - 1 PROVE ~Opens(c[j], p)
  <2>1. j \in Int /\ k \in Int /\ i \in Int /\ 1 <= j /\ j <= (k + i) - 1
    BY <1>1, <1>2
  <2>2. CASE j <= k
    <3>1. j \in 1..k /\ Len(cand) - k + j \in 1..Len(cand)
      BY <1>1, <1>2, <2>1, <2>2
    <3> QED BY <1>2, <3>1
  <2>3. CASE j > k
    <3>1. j - k \in 1..i - 1
      BY <2>1, <2>3
    <3>2. j - k \in 1..Len(b)
      BY <1>1, <3>1
    <3>3. k + (j - k) = j
      BY <2>1
    <3>4. c[j] = b[j - k]
      BY <1>2, <3>2, <3>3
    <3> QED BY <1>3, <3>1, <3>4
  <2> QED BY <2>1, <2>2, <2>3
<1> QED BY <1>1, <1>3, <1>4, <1>5 DEF Closed

(* The candidate closes its own port. *)
LEMMA ClosedTopped ==
    ASSUME NEW c \in Seq(Rules), NEW m \in Nat, NEW g \in Configs, g.enabled,
           Topped(c, m, CandidateRules(g))
    PROVE  Closed(c, g.port)
<1> DEFINE cand == CandidateRules(g)
           n == Len(cand)
<1>1. /\ cand \in Seq(Rules) /\ n \in Nat /\ n = Len(g.sources) + 1 /\ Len(g.sources) \in Nat
      /\ cand[n] = Drop(g.port) /\ \A i \in 1..n : \A p : ~Opens(cand[i], p)
  BY CandidateFacts, Zenon
<1>2. n # 0
  BY <1>1
<1>3. /\ cand \in Seq(Rules) /\ n \in Nat /\ n # 0 /\ cand[n] = Drop(g.port)
      /\ \A i \in 1..n : \A p : ~Opens(cand[i], p)
  BY <1>1, <1>2
<1>4. /\ m + n <= Len(c) /\ Len(c) \in Nat
      /\ \A i \in 1..m : ~IsManaged(c[i])
      /\ \A i \in 1..n : c[m + i] = cand[i]
  BY DEF Topped
<1> HIDE DEF cand, n
<1>5. DOMAIN c = 1..Len(c)
  OBVIOUS
<1>6. m + n \in DOMAIN c /\ n \in 1..n
  BY <1>3, <1>4, <1>5
<1>7. c[m + n].tag = "drop" /\ c[m + n].port = g.port
  BY <1>3, <1>4, <1>6 DEF Drop
<1>8. ASSUME NEW j \in 1..(m + n) - 1 PROVE ~Opens(c[j], g.port)
  <2>1. j \in 1..m \/ (j - m \in 1..n /\ m + (j - m) = j)
    BY <1>3
  <2>2. CASE j \in 1..m
    BY <1>4, <2>2 DEF IsManaged, Opens
  <2>3. CASE j - m \in 1..n /\ m + (j - m) = j
    BY <1>3, <1>4, <2>3
  <2> QED BY <2>1, <2>2, <2>3
<1> QED BY <1>6, <1>7, <1>8 DEF Closed

(* The old rules at their places close the old port, below part of a       *)
(* candidate too.                                                          *)
LEMMA ClosedShifted ==
    ASSUME NEW c \in Seq(Rules), NEW k, NEW cand \in Seq(Rules), NEW o \in Seq(Rules), NEW p,
           Stacked(c, k, cand, <<>>), Obsolete(c, k) = Shifted(ManagedPositions(o), k),
           Closed(o, p), \A i \in 1..Len(cand) : ~Opens(cand[i], p)
    PROVE  Closed(c, p)
<1> DEFINE f == ManagedPositions(o)
           g == Shifted(f, k)
<1>1. Len(cand) \in Nat /\ Len(o) \in Nat /\ Len(c) \in Nat /\ DOMAIN o = 1..Len(o)
      /\ DOMAIN c = 1..Len(c)
  OBVIOUS
<1>2. k \in 0..Len(cand) /\ k \in Nat /\ \A i \in 1..k : c[i] = cand[Len(cand) - k + i]
  BY <1>1 DEF Stacked
<1>3. Positioned(f) /\ DOMAIN f = Own(o) /\ DOMAIN Obsolete(c, k) = {i \in Own(c) : i > k}
  BY <1>2, PositionedFacts
<1>4. DOMAIN g = {j + k : j \in DOMAIN f} /\ \A j \in DOMAIN f : j + k \in DOMAIN g /\ g[j + k] = f[j]
  BY <1>2, <1>3, ShiftedFacts
<1>5. \A i \in Own(o) : f[i] = o[i]
  BY DEF ManagedPositions
<1>6. \A i \in {j \in Own(c) : j > k} : Obsolete(c, k)[i] = c[i]
  BY DEF Obsolete
<1>7. Obsolete(c, k) = g
  OBVIOUS
<1> HIDE DEF f, g
<1>8. \A j \in Own(o) : j + k \in Own(c) /\ c[j + k] = o[j]
  BY <1>3, <1>4, <1>5, <1>6, <1>7
<1>9. \A i \in Own(c) : i > k => \E j \in Own(o) : i = j + k
  BY <1>3, <1>4, <1>7
<1>10. PICK i \in 1..Len(o) : o[i].tag = "drop" /\ o[i].port = p /\ \A j \in 1..i - 1 : ~Opens(o[j], p)
  BY <1>1 DEF Closed
<1>11. i \in Own(o)
  BY <1>1, <1>10 DEF Own, IsManaged
<1>12. i + k \in DOMAIN c /\ c[i + k].tag = "drop" /\ c[i + k].port = p
  <2>1. Own(c) \subseteq DOMAIN c
    BY DEF Own
  <2> QED BY <1>8, <1>10, <1>11, <2>1
<1>13. ASSUME NEW j \in 1..(i + k) - 1, Opens(c[j], p) PROVE FALSE
  <2>1. CASE j \in 1..k
    <3>1. Len(cand) - k + j \in 1..Len(cand)
      BY <1>1, <1>2, <2>1
    <3> QED BY <1>2, <1>13, <2>1, <3>1
  <2>2. CASE j \notin 1..k
    <3>1. j > k /\ j \in DOMAIN c
      BY <1>1, <1>2, <1>12, <2>2
    <3>2. j \in Own(c)
      BY <1>13, <3>1 DEF Own, IsManaged, Opens
    <3>3. PICK z \in Own(o) : j = z + k
      BY <1>9, <3>1, <3>2
    <3>4. z \in 1..Len(o)
      BY <1>1 DEF Own
    <3>5. z \in 1..i - 1
      BY <1>2, <3>3, <3>4
    <3> QED BY <1>8, <1>10, <1>13, <3>3, <3>5
  <2> QED BY <2>1, <2>2
<1> QED BY <1>12, <1>13 DEF Closed

-----------------------------------------------------------------------------
(* Chains that are whole, restored or applied *)

(* IsPrefix, rule by rule. *)
LEMMA PrefixIndex ==
    ASSUME NEW a \in Seq(Rules), NEW b \in Seq(Rules)
    PROVE  IsPrefix(a, b) <=> (Len(a) <= Len(b) /\ \A i \in 1..Len(a) : b[i] = a[i])
<1>1. Len(a) \in Nat /\ Len(b) \in Nat
  OBVIOUS
<1>2. SubSeq(a, 1, Len(a)) = a
  OBVIOUS
<1>3. ASSUME Len(a) <= Len(b)
      PROVE  SubSeq(b, 1, Len(a)) = a <=> \A i \in 1..Len(a) : b[i] = a[i]
  <2>1. /\ SubSeq(b, 1, Len(a)) \in Seq(Rules) /\ Len(SubSeq(b, 1, Len(a))) = Len(a)
        /\ \A i \in 1..Len(a) : SubSeq(b, 1, Len(a))[i] = b[i]
    BY <1>1, <1>3
  <2>2. ASSUME \A i \in 1..Len(a) : b[i] = a[i] PROVE SubSeq(b, 1, Len(a)) = a
    BY <2>1, <2>2, SeqEqual
  <2> QED BY <2>1, <2>2
<1> QED BY <1>1, <1>2, <1>3 DEF IsPrefix

(* A chain extends itself. *)
LEMMA ExtendsSelf ==
    ASSUME NEW c \in Seq(Rules)
    PROVE  Extends(c, c)
<1>1. Len(c) \in Nat
  OBVIOUS
<1>2. \A i \in Len(c) + 1..Len(c) : FALSE
  BY <1>1
<1> QED BY <1>1, <1>2 DEF Extends

(* The candidate on top, stated in the three ways the phases use. *)
LEMMA ToppedForms ==
    ASSUME NEW c \in Seq(Rules), NEW cand \in Seq(Rules)
    PROVE  /\ IsPrefix(cand, c) <=> Topped(c, 0, cand)
           /\ Topped(c, 0, cand) => Stacked(c, Len(cand), cand, <<>>)
           /\ Stacked(c, 0, cand, c)
           /\ \A b \in Seq(Rules) : c = cand \o b => Topped(c, 0, cand)
<1>1. Len(c) \in Nat /\ Len(cand) \in Nat /\ \A i \in 1..0 : FALSE
  OBVIOUS
<1>2. \A i \in Int : 0 + i = i /\ Len(cand) - Len(cand) + i = i
  BY <1>1
<1>3. \A i \in 1..Len(cand) : i \in Int
  OBVIOUS
<1>4. 0 + Len(cand) = Len(cand) /\ Len(cand) + 0 = Len(cand) /\ 0 + Len(c) <= Len(c)
  BY <1>1
<1>5. Topped(c, 0, cand) <=> (Len(cand) <= Len(c) /\ \A i \in 1..Len(cand) : c[i] = cand[i])
  BY <1>1, <1>2, <1>3, <1>4 DEF Topped
<1>6. IsPrefix(cand, c) <=> Topped(c, 0, cand)
  BY <1>5, PrefixIndex
<1>7. ASSUME Topped(c, 0, cand) PROVE Stacked(c, Len(cand), cand, <<>>)
  <2>1. Len(<<>>) = 0 /\ Len(cand) \in 0..Len(cand)
    BY <1>1
  <2> QED BY <1>1, <1>2, <1>3, <1>4, <1>5, <1>7, <2>1 DEF Stacked
<1>8. Stacked(c, 0, cand, c)
  <2>1. 0 \in 0..Len(cand) /\ \A i \in 1..Len(c) : 0 + i = i
    BY <1>1
  <2> QED BY <1>1, <1>4, <2>1 DEF Stacked
<1>9. ASSUME NEW b \in Seq(Rules), c = cand \o b PROVE Topped(c, 0, cand)
  <2>1. Len(c) = Len(cand) + Len(b) /\ \A i \in 1..Len(cand) : c[i] = cand[i]
    BY <1>9
  <2>2. Len(cand) <= Len(c)
    BY <1>1, <2>1
  <2> QED BY <1>5, <2>1, <2>2
<1> QED BY <1>6, <1>7, <1>8, <1>9

(* Nothing above position 1. *)
LEMMA ObsoleteAll ==
    ASSUME NEW c \in Seq(Rules)
    PROVE  Obsolete(c, 0) = ManagedPositions(c)
<1>1. Own(c) \subseteq 1..Len(c)
  BY OwnFacts
<1>2. {j \in Own(c) : j > 0} = Own(c)
  BY <1>1
<1> QED BY <1>2 DEF Obsolete, ManagedPositions

(* Managed rules at their places, and the others in their order, are the   *)
(* chain of the snapshot.                                                  *)
LEMMA RestoredExtends ==
    ASSUME NEW o \in Seq(Rules), NEW c \in Seq(Rules),
           ManagedPositions(c) = ManagedPositions(o), IsPrefix(Others(o), Others(c))
    PROVE  Extends(o, c)
<1>1. /\ Len(o) \in Nat /\ Len(c) \in Nat /\ DOMAIN o = 1..Len(o) /\ DOMAIN c = 1..Len(c)
  OBVIOUS
<1>2. DOMAIN ManagedPositions(o) = Own(o) /\ DOMAIN ManagedPositions(c) = Own(c)
  BY PositionedFacts
<1>3. Own(c) = Own(o)
  BY <1>2
<1>4. \A i \in Own(o) : c[i] = o[i]
  BY <1>3 DEF ManagedPositions
<1>5. /\ Own(o) \subseteq 1..Len(o) /\ Rest(o) \subseteq Nat /\ IsFiniteSet(Rest(o))
      /\ Cardinality(Own(o)) \in Nat /\ Cardinality(Rest(o)) \in Nat
      /\ Cardinality(Own(o)) + Cardinality(Rest(o)) = Len(o)
  BY OwnFacts
<1>6. /\ Own(c) \subseteq 1..Len(c) /\ Rest(c) \subseteq Nat /\ IsFiniteSet(Rest(c))
      /\ Cardinality(Own(c)) \in Nat /\ Cardinality(Rest(c)) \in Nat
      /\ Cardinality(Own(c)) + Cardinality(Rest(c)) = Len(c)
  BY OwnFacts
<1>7. /\ Others(o) \in Seq(Rules) /\ Len(Others(o)) = Cardinality(Rest(o))
      /\ \A n \in 1..Len(Others(o)) : Others(o)[n] = o[Nth(Rest(o), n)]
      /\ Others(c) \in Seq(Rules) /\ Len(Others(c)) = Cardinality(Rest(c))
      /\ \A n \in 1..Len(Others(c)) : Others(c)[n] = c[Nth(Rest(c), n)]
  BY ManagedFacts
<1>8. /\ Len(Others(o)) <= Len(Others(c))
      /\ \A n \in 1..Len(Others(o)) : Others(c)[n] = Others(o)[n]
  BY <1>7, PrefixIndex
<1>9. Len(o) <= Len(c)
  BY <1>1, <1>3, <1>5, <1>6, <1>7, <1>8
<1>10. ASSUME NEW i \in 1..Len(o), i \notin Own(o) PROVE c[i] = o[i]
  <2>1. i \in Rest(o) /\ i \in Rest(c)
    BY <1>1, <1>3, <1>9, <1>10 DEF Rest
  <2>2. {j \in Rest(o) : j <= i} = {j \in Rest(c) : j <= i}
    <3>1. \A j \in 1..Len(o) : j \in 1..Len(c)
      BY <1>1, <1>9
    <3>2. \A j \in 1..Len(c) : j <= i => j \in 1..Len(o)
      BY <1>1
    <3> QED BY <1>1, <1>3, <3>1, <3>2 DEF Rest
  <2>3. Rank(Rest(o), i) = Rank(Rest(c), i)
    BY <2>2 DEF Rank
  <2>4. Rank(Rest(o), i) \in 1..Cardinality(Rest(o)) /\ Nth(Rest(o), Rank(Rest(o), i)) = i
    BY <1>5, <2>1, NthLists
  <2>5. Rank(Rest(c), i) \in 1..Cardinality(Rest(c)) /\ Nth(Rest(c), Rank(Rest(c), i)) = i
    BY <1>6, <2>1, NthLists
  <2> QED BY <1>7, <1>8, <2>3, <2>4, <2>5
<1>11. ASSUME NEW i \in Len(o) + 1..Len(c) PROVE ~IsManaged(c[i])
  <2>1. i \notin 1..Len(o) /\ i \in 1..Len(c)
    BY <1>1
  <2>2. i \notin Own(c)
    BY <1>3, <1>5, <2>1
  <2> QED BY <1>1, <2>1, <2>2 DEF Own
<1> QED BY <1>4, <1>9, <1>10, <1>11 DEF Extends

(* What a restored chain is, as the report states it. *)
LEMMA ExtendsRestored ==
    ASSUME NEW o \in Seq(Rules), NEW c \in Seq(Rules), Extends(o, c)
    PROVE  IsPrefix(o, c) /\ Managed(SubSeq(c, Len(o) + 1, Len(c))) = <<>>
<1> DEFINE s == SubSeq(c, Len(o) + 1, Len(c))
<1>1. /\ Len(o) \in Nat /\ Len(c) \in Nat /\ Len(o) <= Len(c)
      /\ \A i \in 1..Len(o) : c[i] = o[i]
      /\ \A i \in Len(o) + 1..Len(c) : ~IsManaged(c[i])
  BY DEF Extends
<1>2. IsPrefix(o, c)
  BY <1>1, PrefixIndex
<1>3. s \in Seq(Rules) /\ Len(s) = Len(c) - Len(o) /\ \A i \in 1..Len(c) - Len(o) : s[i] = c[Len(o) + i]
  <2>1. Len(o) + 1 \in 1..Len(c) + 1
    BY <1>1
  <2>2. \A i \in Len(o) + 1..Len(c) : c[i] \in Rules
    BY <1>1
  <2>3. (Len(c) - (Len(o) + 1)) + 1 = Len(c) - Len(o)
        /\ \A i \in Int : (Len(o) + 1 + i) - 1 = Len(o) + i
    BY <1>1
  <2> QED BY <1>1, <2>1, <2>2, <2>3
<1> HIDE DEF s
<1>4. DOMAIN s = 1..Len(c) - Len(o)
  BY <1>3
<1>5. ASSUME NEW i \in DOMAIN s PROVE ~IsManaged(s[i])
  <2>1. Len(o) + i \in Len(o) + 1..Len(c)
    BY <1>1, <1>4
  <2> QED BY <1>1, <1>3, <1>4, <2>1
<1>6. Own(s) = {}
  BY <1>5 DEF Own
<1>7. Managed(s) \in Seq(Rules) /\ Len(Managed(s)) = Cardinality({})
  BY <1>3, <1>6, ManagedFacts
<1>8. Managed(s) = <<>>
  BY <1>7, FS_EmptySet
<1> QED BY <1>2, <1>8 DEF s

(* drop_candidate: one rule less on top, and the old rules one place up. *)
LEMMA DropStep ==
    ASSUME NEW c \in Seq(Rules), NEW e, Inserted(e, 1, c[1], c), NEW k \in Nat, k # 0,
           NEW f, Positioned(f), Obsolete(c, k) = Shifted(f, k)
    PROVE  Obsolete(e, k - 1) = Shifted(f, k - 1)
<1> DEFINE A == {i \in Own(e) : i > k - 1}
           B == {j + (k - 1) : j \in DOMAIN f}
<1>1. /\ e \in Seq(Rules) /\ Len(e) \in Nat /\ Len(c) = Len(e) + 1
      /\ \A i \in 1..Len(e) : c[i + 1] = e[i]
  BY DEF Inserted
<1>2. /\ Own(e) \subseteq 1..Len(e) /\ Own(c) \subseteq 1..Len(c)
      /\ \A i \in 1..Len(e) : i + 1 \in Own(c) <=> i \in Own(e)
  BY <1>1, CarriedOwn, OwnFacts DEF Carried
<1>3. DOMAIN f \subseteq Nat /\ 0 \notin DOMAIN f
  BY DEF Positioned
<1>4. DOMAIN Obsolete(c, k) = {i \in Own(c) : i > k}
  BY PositionedFacts
<1>5. /\ DOMAIN Shifted(f, k) = {j + k : j \in DOMAIN f}
      /\ \A j \in DOMAIN f : j + k \in DOMAIN Shifted(f, k) /\ Shifted(f, k)[j + k] = f[j]
  BY ShiftedFacts
<1>6. \A i \in {j \in Own(c) : j > k} : Obsolete(c, k)[i] = c[i]
  BY DEF Obsolete
<1>7. \A j \in DOMAIN f : j + k \in Own(c) /\ c[j + k] = f[j]
  BY <1>4, <1>5, <1>6
<1>8. \A i \in Own(c) : i > k => \E j \in DOMAIN f : i = j + k
  BY <1>4, <1>5
<1>9. ASSUME NEW j \in DOMAIN f
      PROVE  j + (k - 1) \in A /\ e[j + (k - 1)] = f[j]
  <2>1. j + k \in 1..Len(e) + 1 /\ j \in Nat /\ j # 0
    BY <1>1, <1>2, <1>3, <1>7
  <2>2. /\ j + (k - 1) \in 1..Len(e) /\ (j + (k - 1)) + 1 = j + k /\ j + (k - 1) > k - 1
    BY <1>1, <2>1
  <2>3. j + (k - 1) \in Own(e)
    BY <1>2, <1>7, <2>2
  <2>4. e[j + (k - 1)] = c[j + k]
    BY <1>1, <2>2
  <2> QED BY <1>7, <2>2, <2>3, <2>4
<1>10. ASSUME NEW i \in A PROVE i \in B
  <2>1. i \in 1..Len(e) /\ i \in Own(e) /\ i > k - 1
    BY <1>2
  <2>2. i + 1 \in Own(c) /\ i + 1 > k
    BY <1>2, <2>1
  <2>3. PICK j \in DOMAIN f : i + 1 = j + k
    BY <1>8, <2>2
  <2>4. i = j + (k - 1)
    BY <1>3, <2>1, <2>3
  <2> QED BY <2>4
<1>11. A = B
  BY <1>9, <1>10
<1>12. ASSUME NEW i \in B PROVE e[i] = f[i - (k - 1)]
  <2>1. PICK j \in DOMAIN f : i = j + (k - 1)
    OBVIOUS
  <2>2. i - (k - 1) = j
    BY <1>3, <2>1
  <2> QED BY <1>9, <2>1, <2>2
<1> HIDE DEF A, B
<1>13. Obsolete(e, k - 1) = [i \in A |-> e[i]]
  BY DEF Obsolete, A
<1>14. Shifted(f, k - 1) = [i \in B |-> f[i - (k - 1)]]
  BY DEF Shifted, B
<1> QED BY <1>11, <1>12, <1>13, <1>14

(* finalize: nothing of the profile is left below the candidate. *)
LEMMA FinalizedExact ==
    ASSUME NEW c \in Seq(Rules), NEW cand \in Seq(Rules), \A i \in 1..Len(cand) : IsManaged(cand[i]),
           Topped(c, 0, cand), \A i \in Own(c) : ~ (i > Len(cand))
    PROVE  ManagedPositions(c) = ManagedPositions(cand) /\ Managed(c) = cand
<1> DEFINE m == Len(cand)
<1>1. /\ m \in Nat /\ Len(c) \in Nat /\ DOMAIN c = 1..Len(c) /\ DOMAIN cand = 1..m
  OBVIOUS
<1>2. m <= Len(c) /\ \A i \in 1..m : c[i] = cand[i]
  BY PrefixIndex, ToppedForms
<1>3. Own(cand) = 1..m
  BY <1>1 DEF Own
<1>4. \A i \in Own(c) : ~ (i > m)
  OBVIOUS
<1>5. \A i \in 1..m : IsManaged(cand[i])
  OBVIOUS
<1> HIDE DEF m
<1>6. \A i \in 1..m : i \in 1..Len(c)
  BY <1>1, <1>2
<1>7. \A i \in 1..Len(c) : ~ (i > m) => i \in 1..m
  BY <1>1
<1>8. Own(c) = 1..m
  BY <1>1, <1>2, <1>4, <1>5, <1>6, <1>7 DEF Own
<1>9. ManagedPositions(c) = ManagedPositions(cand)
  BY <1>2, <1>3, <1>8 DEF ManagedPositions
<1>10. /\ m \in Nat /\ [n \in 1..m |-> n] \in [1..m -> 1..m] /\ 1..m \in SUBSET Nat
       /\ Lists([n \in 1..m |-> n], m, 1..m)
  BY <1>1 DEF Lists
<1>11. Cardinality(1..m) = m /\ \A n \in 1..m : Nth(1..m, n) = n
  BY <1>10, Listing
<1>12. Managed(c) = [n \in 1..m |-> cand[n]]
  BY <1>2, <1>8, <1>11 DEF Managed, InOrder
<1>13. cand = [n \in 1..m |-> cand[n]]
  BY <1>1
<1> QED BY <1>9, <1>12, <1>13

(* stage_old leaves the candidate as it was. *)
LEMMA ToppedSame ==
    ASSUME NEW c \in Seq(Rules), NEW b \in Seq(Rules), NEW cand \in Seq(Rules),
           Topped(c, 0, cand), Topped(b, 0, cand)
    PROVE  SubSeq(c, 1, Len(cand)) = SubSeq(b, 1, Len(cand))
  BY ToppedForms DEF IsPrefix

(* Every rule of the profile in the chain is one of its list. *)
LEMMA ManagedRank ==
    ASSUME NEW c \in Seq(Rules), NEW i \in Own(c)
    PROVE  /\ Rank(Own(c), i) \in 1..Len(Managed(c)) /\ Managed(c)[Rank(Own(c), i)] = c[i]
<1>1. /\ Own(c) \subseteq Nat /\ IsFiniteSet(Own(c)) /\ Own(c) \subseteq 1..Len(c)
  BY OwnFacts
<1>2. Rank(Own(c), i) \in 1..Cardinality(Own(c)) /\ Nth(Own(c), Rank(Own(c), i)) = i
  BY <1>1, NthLists
<1>3. /\ Len(Managed(c)) = Cardinality(Own(c))
      /\ \A n \in 1..Len(Managed(c)) : Managed(c)[n] = c[Nth(Own(c), n)]
  BY ManagedFacts
<1> QED BY <1>2, <1>3

(* The candidate as the profile's only rules: the stranger is dropped and  *)
(* every source of the list accepted.                                      *)
LEMMA AppliedAccepts ==
    ASSUME NEW c \in Seq(Rules), NEW g \in Configs, g.enabled, Managed(c) = CandidateRules(g)
    PROVE  /\ ~Accepts(c, Stranger, g.port)
           /\ \A i \in DOMAIN g.sources : Accepts(c, g.sources[i], g.port)
<1> DEFINE cand == CandidateRules(g)
           n == Len(g.sources)
<1>1. /\ cand \in Seq(Rules) /\ Len(cand) = n + 1 /\ n \in Nat
      /\ cand[Len(cand)] = Drop(g.port)
      /\ \A i \in 1..n : cand[i] = Allow(g.sources[i], g.port)
      /\ \A i \in 1..Len(cand) : \A p : ~Opens(cand[i], p)
  BY CandidateFacts, Zenon
<1>2. DOMAIN g.sources = 1..n
  BY FirewallAssumption
<1>3. Managed(c) = cand
  OBVIOUS
<1> HIDE DEF cand, n
<1>4. /\ Own(c) \subseteq 1..Len(c) /\ Own(c) \subseteq Nat /\ IsFiniteSet(Own(c))
  BY OwnFacts
<1>5. \A i \in Own(c) : Rank(Own(c), i) \in 1..n + 1 /\ c[i] = cand[Rank(Own(c), i)]
  BY <1>1, <1>3, ManagedRank
<1>6. /\ \A i \in 1..n + 1 : Nth(Own(c), i) \in Own(c) /\ cand[i] = c[Nth(Own(c), i)]
  BY <1>1, <1>3, ManagedFacts
<1>7. Cardinality(Own(c)) = n + 1
  BY <1>1, <1>3, ManagedFacts
<1>8. DOMAIN c = 1..Len(c) /\ Len(c) \in Nat
  OBVIOUS
<1>9. Closed(c, g.port)
  <2>1. n + 1 \in 1..n + 1
    BY <1>1
  <2>2. PICK x \in Own(c) : c[x] = Drop(g.port)
    BY <1>1, <1>6, <2>1
  <2>3. x \in DOMAIN c /\ c[x].tag = "drop" /\ c[x].port = g.port
    BY <1>4, <1>8, <2>2 DEF Drop
  <2>4. ASSUME NEW j \in 1..x - 1 PROVE ~Opens(c[j], g.port)
    <3>1. j \in DOMAIN c
      BY <1>4, <1>8, <2>3
    <3>2. CASE j \in Own(c)
      BY <1>1, <1>5, <3>2
    <3>3. CASE j \notin Own(c)
      BY <3>1, <3>3 DEF Own, IsManaged, Opens
    <3> QED BY <3>2, <3>3
  <2> QED BY <2>3, <2>4 DEF Closed
<1>10. ASSUME NEW i \in 1..n PROVE Accepts(c, g.sources[i], g.port)
  <2> DEFINE M == Matching(c, g.sources[i], g.port)
             y == Nth(Own(c), i)
             x == Min(M)
  <2>1. i \in 1..n + 1
    BY <1>1
  <2>2. y \in Own(c) /\ c[y] = Allow(g.sources[i], g.port)
    BY <1>1, <1>6, <2>1
  <2>3. Rank(Own(c), y) = i
    BY <1>4, <1>7, <2>1, NthLists
  <2>4. y \in M
    BY <1>4, <1>8, <2>2 DEF Matching, Allow
  <2>5. M \subseteq Nat /\ M \subseteq Own(c)
    BY <1>8 DEF Matching, Own, IsManaged
  <2>6. Accepts(c, g.sources[i], g.port) <=> (M = {} \/ c[x].tag = "allow")
    BY DEF Accepts
  <2> HIDE DEF M, x, y
  <2>7. x \in M /\ x <= y
    BY <2>4, <2>5, MinPosition DEF x
  <2>8. x \in Own(c) /\ x \in Nat /\ y \in Nat
    BY <1>4, <2>2, <2>5, <2>7
  <2>9. x = y \/ x < y
    BY <2>7, <2>8
  <2>10. Rank(Own(c), x) = i \/ Rank(Own(c), x) < Rank(Own(c), y)
    BY <1>4, <2>2, <2>3, <2>8, <2>9, RankFacts
  <2>11. Rank(Own(c), x) \in 1..n + 1
    BY <1>5, <2>8
  <2>12. Rank(Own(c), x) \in 1..n
    BY <1>1, <2>3, <2>10, <2>11
  <2>13. c[x] = Allow(g.sources[Rank(Own(c), x)], g.port)
    BY <1>1, <1>5, <2>8, <2>12
  <2>14. c[x].tag = "allow"
    BY <2>13 DEF Allow
  <2> QED BY <2>6, <2>14
<1> QED BY <1>2, <1>9, <1>10, ClosedMeans

-----------------------------------------------------------------------------
(* The inductive invariant *)

(* What every step needs of the invariant. *)
LEMMA InvFacts ==
    ASSUME ChainInv
    PROVE  /\ chain \in Seq(Rules) /\ before \in Seq(Rules) /\ original \in Seq(Rules)
           /\ queue \in Seq(Commands) /\ new \in Configs /\ old \in Configs /\ Len(chain) \in Nat
           /\ Cand \in Seq(Rules) /\ Count = Len(Cand) /\ Count \in Nat
           /\ \A i \in 1..Count : IsManaged(Cand[i])
           /\ \A i \in 1..Count : \A p : ~Opens(Cand[i], p)
           /\ new.enabled => Count # 0
           /\ Positioned(saved)
           /\ foreign = Others(chain) /\ Len(Others(original)) <= Len(Others(chain))
<1>1. /\ chain \in Seq(Rules) /\ before \in Seq(Rules) /\ original \in Seq(Rules)
      /\ queue \in Seq(Commands) /\ new \in Configs /\ old \in Configs
  BY DEF ChainInv, TypeInv
<1>2. Len(chain) \in Nat
  BY <1>1
<1>3. /\ Cand \in Seq(Rules) /\ Len(Cand) \in Nat
      /\ \A i \in 1..Len(Cand) : IsManaged(Cand[i])
      /\ \A i \in 1..Len(Cand) : \A p : ~Opens(Cand[i], p)
      /\ new.enabled => Len(Cand) = Len(new.sources) + 1 /\ Len(new.sources) \in Nat
  BY <1>1, CandidateFacts, Zenon DEF Cand
<1>4. Count = Len(Cand)
  BY DEF Count, Cand
<1>5. new.enabled => Count # 0
  BY <1>3, <1>4
<1>6. /\ foreign = Others(chain) /\ Len(Others(original)) <= Len(foreign)
      /\ step = "idle" => saved = <<>>
      /\ step # "idle" => saved = ManagedPositions(original)
  BY DEF ChainInv, HistoryInv
<1>7. Positioned(saved)
  BY <1>1, <1>6, PositionedFacts
<1> QED BY <1>1, <1>2, <1>3, <1>4, <1>5, <1>6, <1>7

(* The invariant's parts about a phase say nothing of the others. *)
LEMMA OnePhase ==
    ASSUME TypeInv', StepInv', HistoryInv',
           phase' = "none" => NoneInv',
           phase' \in {"prepare", "undo_prepare"} => PrepareInv',
           phase' = "finalize" => FinalizeInv', phase' = "stage_old" => StageInv',
           phase' = "drop_candidate" => DropInv', phase' = "apply" => ApplyInv',
           phase' = "restore" => RestoreInv',
           phase' \in {"put_back", "put_back_restore"} => PutBackInv'
    PROVE  ChainInv'
  BY DEF ChainInv, NoneInv, PrepareInv, FinalizeInv, StageInv, DropInv, ApplyInv, RestoreInv, PutBackInv

(* Before the first transaction there is nothing to take back. *)
LEMMA InitInv ==
    ASSUME Init
    PROVE  ChainInv
<1>1. chain \in Seq(Rules) /\ original = chain /\ foreign = Others(chain) /\ Start \in Configs
  BY FirewallAssumption DEF Init
<1>2. Others(chain) \in Seq(Rules)
  BY <1>1, ManagedFacts
<1>3. Len(Others(chain)) \in Nat
  BY <1>2
<1>4. /\ old = Start /\ new = Start /\ kind = "edit" /\ step = "idle"
      /\ saved = <<>> /\ phase = "none" /\ queue = <<>>
      /\ before = <<>> /\ faults = 0 /\ clean = TRUE /\ moved = FALSE
  BY DEF Init
<1>5. 0 \in 0..MaxFaults
  BY FirewallAssumption
<1>6. <<>> \in Seq(Commands) /\ <<>> \in Seq(Rules)
  OBVIOUS
<1>7. TypeInv
  BY <1>1, <1>2, <1>4, <1>5, <1>6 DEF TypeInv, Steps, Phases
<1>8. StepInv
  BY <1>4 DEF StepInv
<1>9. IsPrefix(Others(original), foreign)
  BY <1>1, <1>2, <1>3, PrefixIndex
<1>10. HistoryInv
  BY <1>1, <1>3, <1>4, <1>9 DEF HistoryInv
<1>11. Extends(original, chain)
  BY <1>1, ExtendsSelf
<1>12. NoneInv
  BY <1>1, <1>4, <1>11 DEF NoneInv, Protected
<1> QED BY <1>4, <1>7, <1>8, <1>10, <1>12
        DEF ChainInv, PrepareInv, FinalizeInv, StageInv, DropInv, ApplyInv, RestoreInv, PutBackInv

(* The caller starts over from the chain as it is. *)
LEMMA BeginInv ==
    ASSUME ChainInv, NEW k \in {"edit", "create", "delete"}, NEW c \in Configs, Begin(k, c)
    PROVE  ChainInv'
<1>1. chain \in Seq(Rules) /\ foreign = Others(chain) /\ new \in Configs /\ old \in Configs
  BY InvFacts
<1>2. /\ phase = "none" /\ queue = <<>> /\ foreign \in Seq(Rules)
  BY DEF ChainInv, TypeInv, StepInv, Begin
<1>3. /\ kind' = k /\ new' = c /\ old' \in Configs
      /\ saved' = ManagedPositions(chain) /\ original' = chain
      /\ step' = "begun" /\ faults' = 0 /\ moved' = FALSE /\ clean' = TRUE
      /\ before' = <<>> /\ chain' = chain /\ phase' = "none" /\ queue' = <<>> /\ foreign' = foreign
  BY <1>1, <1>2 DEF Begin, Current
<1>4. 0 \in 0..MaxFaults
  BY FirewallAssumption
<1>5. <<>> \in Seq(Commands) /\ <<>> \in Seq(Rules)
  OBVIOUS
<1>6. TypeInv'
  BY <1>1, <1>2, <1>3, <1>4, <1>5 DEF TypeInv, Steps, Phases
<1>7. StepInv'
  BY <1>3 DEF StepInv
<1>8. Len(Others(chain)) \in Nat /\ IsPrefix(Others(chain), Others(chain))
  BY <1>1, <1>2, PrefixIndex
<1>9. HistoryInv'
  BY <1>1, <1>3, <1>8 DEF HistoryInv
<1>10. Extends(chain, chain)
  BY <1>1, ExtendsSelf
<1>11. NoneInv'
  BY <1>3, <1>10 DEF NoneInv, Protected
<1> QED BY <1>3, <1>6, <1>7, <1>9, <1>11, OnePhase

(* A process that starts changes only what Launch says. *)
LEMMA Launched ==
    ASSUME ChainInv, phase = "none", NEW ph \in Phases, NEW q \in Seq(Commands), Launch(ph, q)
    PROVE  TypeInv' /\ HistoryInv' /\ phase' = ph /\ queue' = q /\ before' = chain /\ Cand' = Cand
           /\ Count' = Count
           /\ UNCHANGED <<chain, kind, old, new, step, saved, original, foreign, faults, moved>>
           /\ (Staged' <=> Staged) /\ (Protected' <=> Protected)
<1>1. /\ phase' = ph /\ queue' = q /\ before' = chain /\ clean' = TRUE
      /\ UNCHANGED <<chain, kind, old, new, step, saved, original, foreign, faults, moved>>
  BY DEF Launch
<1>2. TypeInv'
  BY <1>1 DEF ChainInv, TypeInv
<1>3. HistoryInv'
  BY <1>1 DEF ChainInv, HistoryInv
<1>4. Cand' = Cand /\ Count' = Count /\ (Staged' <=> Staged) /\ (Protected' <=> Protected)
  BY <1>1 DEF Cand, Count, Staged, Protected
<1> QED BY <1>1, <1>2, <1>3, <1>4

(* prepare *)
LEMMA StartPrepareInv ==
    ASSUME ChainInv, StartPrepare
    PROVE  ChainInv'
<1> DEFINE q == InsertOnTop(CandidateRules(new))
<1>1. /\ chain \in Seq(Rules) /\ Cand \in Seq(Rules) /\ Count = Len(Cand) /\ Count \in Nat
      /\ Len(chain) \in Nat
  BY InvFacts
<1>2. step = "begun" /\ phase = "none" /\ Staged /\ Launch("prepare", q)
  BY DEF StartPrepare
<1>3. q = InsertOnTop(Cand) /\ q \in Seq(Commands) /\ Len(q) = Count
  BY <1>1, InsertOnTopFacts DEF Cand
<1> HIDE DEF q
<1>4. /\ TypeInv' /\ HistoryInv' /\ phase' = "prepare" /\ queue' = q /\ before' = chain
      /\ Cand' = Cand /\ Count' = Count
      /\ UNCHANGED <<chain, kind, old, new, step, saved, original, foreign, faults, moved>>
      /\ (Staged' <=> Staged) /\ (Protected' <=> Protected)
  BY <1>2, <1>3, Launched DEF Phases
<1>5. StepInv'
  BY <1>2, <1>4 DEF StepInv
<1>6. Stacked(chain, 0, Cand, chain)
  BY <1>1, ToppedForms
<1>7. Followed(q, 0, q)
  <2>1. Len(q) = 0 + Len(q) /\ \A j \in 1..Len(q) : 0 + j = j
    BY <1>1, <1>3
  <2> QED BY <2>1 DEF Followed
<1>8. /\ ~moved => Extends(original, chain)
      /\ Protected => Closed(chain, old.port)
  BY <1>2 DEF ChainInv, NoneInv
<1>9. 0 \in 0..Count /\ Len(chain) = 0 + Len(chain)
  BY <1>1
<1>10. /\ Stacked(chain', 0, Cand', before')
       /\ clean' => Len(chain') = 0 + Len(before')
       /\ Followed(InsertOnTop(Cand'), 0, queue')
  BY <1>3, <1>4, <1>6, <1>7, <1>9
<1>11. PrepareInv'
  BY <1>4, <1>8, <1>9, <1>10 DEF PrepareInv
<1> QED BY <1>4, <1>5, <1>11, OnePhase

(* A process that ends changes only what Exit says. *)
LEMMA Exited ==
    ASSUME ChainInv, step # "idle", NEW outcome \in Steps, outcome # "idle", Exit(outcome),
           chain' = chain, faults' \in 0..MaxFaults, clean' \in BOOLEAN,
           outcome \in {"staged", "refused"} => Staged
    PROVE  /\ TypeInv' /\ StepInv' /\ HistoryInv' /\ phase' = "none" /\ step' = outcome
           /\ UNCHANGED <<chain, kind, old, new, saved, before, original, foreign, moved>>
           /\ Cand' = Cand /\ (Staged' <=> Staged) /\ (Protected' <=> Protected)
<1>1. /\ phase' = "none" /\ queue' = <<>> /\ step' = outcome
      /\ UNCHANGED <<chain, kind, old, new, saved, before, original, foreign, moved>>
  BY DEF Exit
<1>2. <<>> \in Seq(Commands) /\ "none" \in Phases
  BY DEF Phases
<1>3. TypeInv'
  BY <1>1, <1>2 DEF ChainInv, TypeInv
<1>4. HistoryInv'
  BY <1>1 DEF ChainInv, HistoryInv
<1>5. Cand' = Cand /\ (Staged' <=> Staged) /\ (Protected' <=> Protected)
  BY <1>1 DEF Cand, Staged, Protected
<1>6. StepInv'
  BY <1>1, <1>5 DEF StepInv
<1> QED BY <1>1, <1>3, <1>4, <1>5, <1>6

(* finalize starts only with the candidate on top; it is missing there     *)
(* only if another program put a rule above it.                            *)
LEMMA StartFinalizeInv ==
    ASSUME ChainInv, WordInv, StartFinalize
    PROVE  ChainInv'
<1> DEFINE q == DeletePositions(Obsolete(chain, Count))
<1>1. /\ chain \in Seq(Rules) /\ Cand \in Seq(Rules) /\ Count = Len(Cand) /\ Count \in Nat
  BY InvFacts
<1>2. step = "staged" /\ phase = "none" /\ Staged /\ Recognised
  BY DEF StartFinalize, ChainInv, StepInv, WordInv
<1>3. PICK m \in 0..Len(chain) : Topped(chain, m, Cand) /\ (~moved => m = 0)
  BY <1>2 DEF ChainInv, NoneInv
<1>4. IsPrefix(Cand, chain) <=> Topped(chain, 0, Cand)
  BY <1>1, ToppedForms
<1>5. CASE IsPrefix(Cand, chain)
  <2>1. Launch("finalize", q)
    BY <1>2, <1>5 DEF StartFinalize, Cand
  <2>2. <<>> \in Seq(Commands)
    OBVIOUS
  <2>3. q \in Seq(Commands) /\ Deleting(chain, q, Count, Len(q))
    BY <1>1, <2>2, DeletingStart, Zenon
  <2> HIDE DEF q
  <2>4. /\ TypeInv' /\ HistoryInv' /\ phase' = "finalize" /\ queue' = q
        /\ Cand' = Cand /\ Count' = Count /\ UNCHANGED <<chain, step>> /\ (Staged' <=> Staged)
    BY <1>2, <2>1, <2>3, Launched DEF Phases
  <2>5. StepInv'
    BY <1>2, <2>4 DEF StepInv
  <2>6. FinalizeInv'
    BY <1>4, <1>5, <2>3, <2>4 DEF FinalizeInv
  <2> QED BY <2>4, <2>5, <2>6, OnePhase
<1>6. CASE ~IsPrefix(Cand, chain)
  <2>1. Exit("failed") /\ clean' = TRUE /\ UNCHANGED <<chain, faults>>
    BY <1>6 DEF StartFinalize, Cand
  <2>2. faults' \in 0..MaxFaults
    BY <2>1 DEF ChainInv, TypeInv
  <2>3. /\ TypeInv' /\ StepInv' /\ HistoryInv' /\ phase' = "none" /\ step' = "failed"
        /\ UNCHANGED <<chain, moved>> /\ Cand' = Cand /\ (Staged' <=> Staged)
    BY <1>2, <2>1, <2>2, Exited DEF Steps
  <2>4. moved
    BY <1>3, <1>4, <1>6
  <2>5. NoneInv'
    BY <1>3, <2>3, <2>4 DEF NoneInv
  <2> QED BY <2>3, <2>5, OnePhase
<1> QED BY <1>5, <1>6

(* rollback finds the candidate on top, or another program's rule. *)
LEMMA StartRollbackInv ==
    ASSUME ChainInv, StartRollback
    PROVE  ChainInv'
<1> DEFINE r == InsertPositions(Shifted(saved, Count))
           a == DeletePositions(Obsolete(chain, Count))
           guard == Count <= Len(chain) /\ \A i \in 1..Count : IsManaged(chain[i])
<1>1. /\ chain \in Seq(Rules) /\ Cand \in Seq(Rules) /\ Count = Len(Cand) /\ Count \in Nat
      /\ Len(chain) \in Nat /\ Positioned(saved) /\ new \in Configs
      /\ \A i \in 1..Count : IsManaged(Cand[i])
      /\ new.enabled => Count # 0
  BY InvFacts
<1>2. step \in {"staged", "failed", "applied"} /\ phase = "none" /\ Staged /\ new.enabled
  BY DEF StartRollback, Staged
<1>3. PICK m \in 0..Len(chain) : Topped(chain, m, Cand) /\ (~moved => m = 0)
  BY <1>2 DEF ChainInv, NoneInv
<1>4. guard <=> m = 0
  <2>1. CASE m = 0
    <3>1. Len(Cand) <= Len(chain) /\ \A i \in 1..Len(Cand) : chain[i] = Cand[i]
      BY <1>1, <1>3, <2>1, ToppedForms, PrefixIndex
    <3> QED BY <1>1, <2>1, <3>1
  <2>2. CASE m # 0
    <3>1. 1 \in 1..m /\ 1 \in 1..Count
      BY <1>1, <1>2, <2>2
    <3>2. ~IsManaged(chain[1])
      BY <1>3, <3>1 DEF Topped
    <3> QED BY <2>2, <3>1, <3>2
  <2> QED BY <2>1, <2>2
<1>5. CASE guard
  <2>1. Launch("stage_old", a \o r)
    BY <1>5 DEF StartRollback, StageOld
  <2>2. Positioned(Shifted(saved, Count))
    BY <1>1, ShiftedFacts, Zenon
  <2>3. r \in Seq(Commands)
    BY <2>2, InsertPositionsFacts
  <2> HIDE DEF r
  <2>4. /\ a \in Seq(Commands) /\ a \o r \in Seq(Commands)
        /\ Deleting(chain, a \o r, Count, Len(a)) /\ Followed(a \o r, Len(a), r)
    BY <1>1, <2>3, DeletingStart, Zenon
  <2>5. Topped(chain, 0, Cand)
    BY <1>3, <1>4, <1>5
  <2> HIDE DEF a
  <2>6. /\ TypeInv' /\ HistoryInv' /\ phase' = "stage_old" /\ queue' = a \o r /\ before' = chain
        /\ Cand' = Cand /\ Count' = Count /\ UNCHANGED <<chain, step, saved>> /\ (Staged' <=> Staged)
    BY <1>2, <2>1, <2>4, Launched DEF Phases
  <2>7. StepInv'
    BY <1>2, <2>6 DEF StepInv
  <2>8. r' = r
    BY <2>6 DEF r
  <2>9. Len(a) \in 0..Len(a \o r)
    BY <2>4 DEF Deleting
  <2>10. /\ Deleting(chain', queue', Count', Len(a)) /\ Len(a) \in 0..Len(queue')
         /\ Followed(queue', Len(a), InsertPositions(Shifted(saved', Count')))
    BY <2>4, <2>6, <2>9 DEF r
  <2>11. Topped(chain', 0, Cand') /\ Topped(before', 0, Cand')
    BY <2>5, <2>6
  <2>12. StageInv'
    BY <2>10, <2>11 DEF StageInv
  <2> QED BY <2>6, <2>7, <2>12, OnePhase
<1>6. CASE ~guard
  <2>1. Exit("unproven") /\ clean' = TRUE /\ UNCHANGED <<chain, faults>>
    BY <1>6 DEF StartRollback
  <2>2. faults' \in 0..MaxFaults
    BY <2>1 DEF ChainInv, TypeInv
  <2>3. /\ TypeInv' /\ StepInv' /\ HistoryInv' /\ phase' = "none" /\ step' = "unproven"
        /\ UNCHANGED <<chain, moved, old, new>>
    BY <1>2, <2>1, <2>2, Exited DEF Steps
  <2>4. moved
    BY <1>3, <1>4, <1>6
  <2>5. Closed(chain, new.port)
    <3>1. m \in Nat
      BY <1>1
    <3> QED BY <1>1, <1>2, <1>3, <3>1, ClosedTopped DEF Cand
  <2>6. NoneInv'
    BY <2>3, <2>4, <2>5 DEF NoneInv
  <2> QED BY <2>3, <2>6, OnePhase
<1> QED BY <1>5, <1>6

(* mutate: add, or nothing. *)
LEMMA StartMutateInv ==
    ASSUME ChainInv, StartMutate
    PROVE  ChainInv'
<1> DEFINE r == InsertOnTop(Cand)
           q == ClearManaged(chain) \o r
<1>1. /\ chain \in Seq(Rules) /\ Cand \in Seq(Rules)
  BY InvFacts
<1>2. step = "begun" /\ phase = "none" /\ ~Staged /\ Launch("apply", q)
  BY DEF StartMutate, Cand
<1>3. r \in Seq(Commands)
  BY <1>1, InsertOnTopFacts
<1>4. q \in Seq(Commands) /\ Clearing(chain, q) /\ Followed(q, Len(Managed(chain)), r)
  BY <1>1, <1>3, ClearingStart
<1> HIDE DEF q
<1>5. /\ TypeInv' /\ HistoryInv' /\ phase' = "apply" /\ queue' = q
      /\ Cand' = Cand /\ UNCHANGED <<chain, step>> /\ (Staged' <=> Staged)
  BY <1>2, <1>4, Launched DEF Phases
<1>6. StepInv'
  BY <1>2, <1>5 DEF StepInv
<1>7. ApplyInv'
  BY <1>4, <1>5 DEF ApplyInv
<1> QED BY <1>5, <1>6, <1>7, OnePhase

(* restore *)
LEMMA StartRestoreInv ==
    ASSUME ChainInv, StartRestore
    PROVE  ChainInv'
<1> DEFINE r == InsertPositions(saved)
           q == ClearManaged(chain) \o r
<1>1. chain \in Seq(Rules) /\ Positioned(saved)
  BY InvFacts
<1>2. step \in {"begun", "failed", "applied"} /\ phase = "none" /\ ~Staged /\ Launch("restore", q)
  BY DEF StartRestore
<1>3. r \in Seq(Commands)
  BY <1>1, InsertPositionsFacts
<1>4. q \in Seq(Commands) /\ Clearing(chain, q) /\ Followed(q, Len(Managed(chain)), r)
  BY <1>1, <1>3, ClearingStart
<1> HIDE DEF q
<1>5. /\ TypeInv' /\ HistoryInv' /\ phase' = "restore" /\ queue' = q
      /\ UNCHANGED <<chain, step, saved>> /\ (Staged' <=> Staged)
  BY <1>2, <1>4, Launched DEF Phases
<1>6. StepInv'
  BY <1>2, <1>5 DEF StepInv
<1>7. RestoreInv'
  BY <1>4, <1>5 DEF RestoreInv
<1> QED BY <1>5, <1>6, <1>7, OnePhase

-----------------------------------------------------------------------------
(* One iptables command *)

(* A command that iptables accepts. *)
CommandStep ==
    /\ queue # <<>> /\ chain' = Executed(Head(queue)) /\ queue' = Tail(queue)
    /\ UNCHANGED <<kind, old, new, step, saved, phase, before, original,
                   foreign, faults, clean, moved>>

(* Execute is such a step whenever the command is possible. *)
LEMMA ExecutePossible ==
    ASSUME ChainInv, Execute
    PROVE  /\ queue # <<>> /\ Head(queue) = queue[1] /\ phase # "none" /\ queue[1] \in Commands
           /\ Possible(queue[1]) => CommandStep
           /\ ~Possible(queue[1]) => Raise /\ UNCHANGED <<faults, clean>>
<1>1. queue # <<>> /\ queue \in Seq(Commands)
  BY InvFacts DEF Execute
<1>2. Head(queue) = queue[1] /\ queue[1] \in Commands
  BY <1>1
<1>3. phase # "none"
  BY <1>1 DEF ChainInv, StepInv
<1> QED BY <1>1, <1>2, <1>3 DEF Execute, CommandStep

(* iptables -I, -D by position and -D by content. *)
LEMMA ExecutedCommands ==
    ASSUME chain \in Seq(Rules), NEW c \in Commands
    PROVE  /\ (c.op = "insert" /\ c.at \in 1..Len(chain) + 1) =>
                 Possible(c) /\ Inserted(chain, c.at, c.rule, Executed(c))
           /\ (c.op = "delete" /\ c.at \in 1..Len(chain)) =>
                 Possible(c) /\ Inserted(Executed(c), c.at, chain[c.at], chain)
           /\ (c.op = "delete_rule" /\ Contains(chain, c.rule)) =>
                 Possible(c) /\ Executed(c) = RemoveFirst(chain, c.rule)
           /\ (c.op = "insert" /\ Possible(c)) => c.at <= Len(chain) + 1
           /\ (c.op = "delete_rule" /\ Possible(c)) => Contains(chain, c.rule)
<1>1. c.rule \in Rules /\ Len(chain) \in Nat
  BY DEF Commands
<1>2. ASSUME c.op = "insert"
      PROVE  (Possible(c) <=> c.at <= Len(chain) + 1) /\ Executed(c) = InsertAt(chain, c.at, c.rule)
  BY <1>2 DEF Possible, Executed
<1>3. ASSUME c.op = "delete"
      PROVE  (Possible(c) <=> c.at <= Len(chain)) /\ Executed(c) = RemoveAt(chain, c.at)
  BY <1>3 DEF Possible, Executed
<1>4. ASSUME c.op = "delete_rule"
      PROVE  (Possible(c) <=> Contains(chain, c.rule)) /\ Executed(c) = RemoveFirst(chain, c.rule)
  BY <1>4 DEF Possible, Executed
<1>5. ASSUME c.op = "insert", c.at \in 1..Len(chain) + 1
      PROVE  Possible(c) /\ Inserted(chain, c.at, c.rule, Executed(c))
  <2>1. c.at <= Len(chain) + 1
    BY <1>1, <1>5
  <2>2. Inserted(chain, c.at, c.rule, InsertAt(chain, c.at, c.rule))
    BY <1>1, <1>5, InsertAtInserts
  <2> QED BY <1>2, <1>5, <2>1, <2>2
<1>6. ASSUME c.op = "delete", c.at \in 1..Len(chain)
      PROVE  Possible(c) /\ Inserted(Executed(c), c.at, chain[c.at], chain)
  <2>1. c.at <= Len(chain)
    BY <1>1, <1>6
  <2>2. Inserted(RemoveAt(chain, c.at), c.at, chain[c.at], chain)
    BY <1>6, RemoveAtRemoves
  <2> QED BY <1>3, <1>6, <2>1, <2>2
<1> QED BY <1>2, <1>4, <1>5, <1>6

(* A command about one of the profile's rules. *)
LEMMA CommandKeeps ==
    ASSUME ChainInv, CommandStep, phase # "none", NEW p, NEW r, IsManaged(r),
           Inserted(chain, p, r, chain') \/ Inserted(chain', p, r, chain)
    PROVE  /\ TypeInv' /\ StepInv' /\ HistoryInv' /\ queue' = Tail(queue) /\ chain' \in Seq(Rules)
           /\ UNCHANGED <<kind, old, new, step, saved, phase, before, original, clean, moved>>
           /\ Cand' = Cand /\ Count' = Count /\ (Staged' <=> Staged) /\ (Protected' <=> Protected)
           /\ Others(chain') = Others(chain) /\ queue' \in Seq(Commands)
<1>1. /\ queue' = Tail(queue) /\ queue # <<>>
      /\ UNCHANGED <<kind, old, new, step, saved, phase, before, original,
                     foreign, faults, clean, moved>>
  BY DEF CommandStep
<1>2. queue' \in Seq(Commands)
  BY <1>1, InvFacts
<1>3. chain' \in Seq(Rules)
  BY DEF Inserted
<1>4. Others(chain') = Others(chain)
  BY OneKindMoves
<1>5. TypeInv'
  BY <1>1, <1>2, <1>3 DEF ChainInv, TypeInv
<1>6. Cand' = Cand /\ Count' = Count /\ (Staged' <=> Staged) /\ (Protected' <=> Protected)
  BY <1>1 DEF Cand, Count, Staged, Protected
<1>7. StepInv'
  BY <1>1, <1>6 DEF ChainInv, StepInv
<1>8. HistoryInv'
  BY <1>1, <1>4 DEF ChainInv, HistoryInv
<1> QED BY <1>1, <1>2, <1>3, <1>4, <1>5, <1>6, <1>7, <1>8

(* prepare puts the candidate on top, the last rule first. *)
LEMMA ExecutePrepare ==
    ASSUME ChainInv, Execute, phase = "prepare"
    PROVE  ChainInv' /\ phase' = "prepare"
<1> DEFINE c == queue[1]
<1>1. /\ chain \in Seq(Rules) /\ before \in Seq(Rules) /\ queue \in Seq(Commands)
      /\ Cand \in Seq(Rules) /\ Count = Len(Cand) /\ Count \in Nat /\ Len(chain) \in Nat
      /\ \A i \in 1..Count : IsManaged(Cand[i])
  BY InvFacts
<1>2. queue # <<>> /\ Head(queue) = c /\ c \in Commands /\ (Possible(c) => CommandStep)
  BY ExecutePossible
<1>3. PICK k \in 0..Count :
         /\ Stacked(chain, k, Cand, before)
         /\ clean => Len(chain) = k + Len(before)
         /\ Followed(InsertOnTop(Cand), k, queue)
  BY DEF ChainInv, PrepareInv
<1>4. /\ ~moved => Extends(original, before)
      /\ Protected => Closed(before, old.port)
  BY DEF ChainInv, PrepareInv
<1>5. /\ InsertOnTop(Cand) \in Seq(Commands) /\ Len(InsertOnTop(Cand)) = Count
      /\ \A i \in 1..Count : InsertOnTop(Cand)[i] = InsertCmd(1, Cand[Count + 1 - i])
  BY <1>1, InsertOnTopFacts
<1>6. /\ k + 1 \in 1..Len(InsertOnTop(Cand)) /\ c = InsertOnTop(Cand)[k + 1]
      /\ Followed(InsertOnTop(Cand), k + 1, Tail(queue))
  <2>1. k \in Nat
    BY <1>1
  <2> QED BY <1>1, <1>2, <1>3, <1>5, <2>1, FollowedTail
<1>7. k + 1 \in 1..Count /\ Count + 1 - (k + 1) = Count - k /\ Count - k \in 1..Count
      /\ k < Len(Cand)
  BY <1>1, <1>5, <1>6
<1>8. c = InsertCmd(1, Cand[Count - k]) /\ Cand[Count - k] \in Rules /\ IsManaged(Cand[Count - k])
  BY <1>1, <1>5, <1>6, <1>7
<1>9. c.op = "insert" /\ c.at = 1 /\ c.rule = Cand[Count - k]
  BY <1>8, CommandFacts
<1> HIDE DEF c
<1>10. 1 \in 1..Len(chain) + 1
  BY <1>1
<1>11. Possible(c) /\ Inserted(chain, 1, Cand[Count - k], Executed(c))
  BY <1>1, <1>2, <1>9, <1>10, ExecutedCommands
<1>12. CommandStep /\ chain' = Executed(c)
  BY <1>2, <1>11 DEF CommandStep
<1>13. Inserted(chain, 1, Cand[Count - k], chain') /\ Inserted(chain, 1, Cand[Len(Cand) - k], chain')
  BY <1>1, <1>11, <1>12
<1>14. /\ TypeInv' /\ StepInv' /\ HistoryInv' /\ queue' = Tail(queue)
       /\ UNCHANGED <<kind, old, new, step, saved, phase, before, original, clean, moved>>
       /\ Cand' = Cand /\ Count' = Count /\ (Protected' <=> Protected)
  BY <1>8, <1>12, <1>13, CommandKeeps
<1>15. Stacked(chain', k + 1, Cand, before) /\ Len(chain') = Len(chain) + 1
  <2>1. /\ chain \in Seq(Rules) /\ before \in Seq(Rules) /\ Cand \in Seq(Rules) /\ k < Len(Cand)
        /\ Stacked(chain, k, Cand, before) /\ Inserted(chain, 1, Cand[Len(Cand) - k], chain')
    BY <1>1, <1>3, <1>7, <1>13
  <2> QED BY <2>1, StackedPush, Zenon
<1>16. k + 1 \in 0..Count
  BY <1>7
<1>17. ASSUME clean PROVE Len(chain') = (k + 1) + Len(before)
  <2>1. Len(before) \in Nat /\ k \in Nat
    BY <1>1
  <2>2. Len(chain) = k + Len(before)
    BY <1>3, <1>17
  <2> QED BY <1>15, <2>1, <2>2
<1>18. /\ Stacked(chain', k + 1, Cand', before') /\ (clean' => Len(chain') = (k + 1) + Len(before'))
       /\ Followed(InsertOnTop(Cand'), k + 1, queue') /\ k + 1 \in 0..Count'
  BY <1>6, <1>14, <1>15, <1>16, <1>17
<1>19. PrepareInv'
  BY <1>4, <1>14, <1>18 DEF PrepareInv
<1> QED BY <1>14, <1>19, OnePhase

(* A failed prepare takes back what it added. *)
LEMMA ExecuteUndo ==
    ASSUME ChainInv, Execute, phase = "undo_prepare"
    PROVE  ChainInv'
<1> DEFINE c == queue[1]
<1>1. /\ chain \in Seq(Rules) /\ before \in Seq(Rules) /\ queue \in Seq(Commands)
      /\ Cand \in Seq(Rules) /\ Count = Len(Cand) /\ Count \in Nat /\ Len(chain) \in Nat
      /\ \A i \in 1..Count : IsManaged(Cand[i])
  BY InvFacts
<1>2. queue # <<>> /\ Head(queue) = c /\ c \in Commands /\ (Possible(c) => CommandStep)
  BY ExecutePossible
<1>3. PICK k \in 0..Count :
         /\ Stacked(chain, k, Cand, before)
         /\ clean => Len(chain) = k + Len(before)
         /\ queue = DeleteTop(k)
  BY DEF ChainInv, PrepareInv
<1>4. /\ ~moved => Extends(original, before)
      /\ Protected => Closed(before, old.port)
  BY DEF ChainInv, PrepareInv
<1>5. k \in Nat /\ k # 0 /\ Tail(queue) = DeleteTop(k - 1) /\ c = DeleteCmd(1)
  <2>1. k \in Nat
    BY <1>1
  <2>2. k # 0
    BY <1>2, <1>3, <2>1, DeleteTopFacts
  <2>3. k > 0 /\ 1 \in 1..k
    BY <2>1, <2>2
  <2> QED BY <1>3, <2>1, <2>2, <2>3, DeleteTopFacts
<1>6. c.op = "delete" /\ c.at = 1
  BY <1>5, CommandFacts
<1> HIDE DEF c
<1>7. 1 \in 1..Len(chain)
  <2>1. k + Len(before) <= Len(chain) /\ Len(before) \in Nat
    BY <1>1, <1>3 DEF Stacked
  <2> QED BY <1>1, <1>5, <2>1
<1>8. Possible(c) /\ Inserted(Executed(c), 1, chain[1], chain)
  BY <1>1, <1>2, <1>6, <1>7, ExecutedCommands
<1>9. CommandStep /\ chain' = Executed(c)
  BY <1>2, <1>8 DEF CommandStep
<1>10. Inserted(chain', 1, chain[1], chain)
  BY <1>8, <1>9
<1>11. Stacked(chain', k - 1, Cand, before) /\ Len(chain) = Len(chain') + 1
       /\ chain[1] = Cand[Len(Cand) - k + 1]
  BY <1>1, <1>3, <1>5, <1>10, StackedPop
<1>12. IsManaged(chain[1])
  <2>1. Len(Cand) - k + 1 \in 1..Count
    BY <1>1, <1>5
  <2> QED BY <1>1, <1>11, <2>1
<1>13. /\ TypeInv' /\ StepInv' /\ HistoryInv' /\ queue' = Tail(queue) /\ chain' \in Seq(Rules)
       /\ UNCHANGED <<kind, old, new, step, saved, phase, before, original, clean, moved>>
       /\ Cand' = Cand /\ Count' = Count /\ (Protected' <=> Protected)
  BY <1>9, <1>10, <1>12, CommandKeeps
<1>14. k - 1 \in 0..Count
  BY <1>1, <1>5
<1>15. clean => Len(chain') = (k - 1) + Len(before)
  <2>1. Len(before) \in Nat /\ Len(chain') \in Nat
    BY <1>1, <1>13
  <2> QED BY <1>1, <1>3, <1>5, <1>11, <2>1
<1>16. /\ Stacked(chain', k - 1, Cand', before') /\ (clean' => Len(chain') = (k - 1) + Len(before'))
       /\ queue' = DeleteTop(k - 1) /\ k - 1 \in 0..Count'
  BY <1>5, <1>11, <1>13, <1>14, <1>15
<1>17. PrepareInv'
  BY <1>4, <1>13, <1>16 DEF PrepareInv
<1> QED BY <1>13, <1>17, OnePhase

(* A deletion of one of the old rules, below the candidate. *)
LEMMA ExecuteDeletion ==
    ASSUME ChainInv, Execute, Topped(chain, 0, Cand), NEW d \in Nat, d # 0,
           Deleting(chain, queue, Count, d)
    PROVE  /\ TypeInv' /\ StepInv' /\ HistoryInv' /\ queue' = Tail(queue) /\ chain' \in Seq(Rules)
           /\ UNCHANGED <<kind, old, new, step, saved, phase, before, original, clean, moved>>
           /\ Cand' = Cand /\ Count' = Count
           /\ Topped(chain', 0, Cand) /\ d - 1 \in 0..Len(queue')
           /\ Deleting(chain', queue', Count, d - 1)
<1> DEFINE c == queue[1]
<1>1. /\ chain \in Seq(Rules) /\ queue \in Seq(Commands) /\ Cand \in Seq(Rules)
      /\ Count = Len(Cand) /\ Count \in Nat /\ Len(chain) \in Nat
  BY InvFacts
<1>2. queue # <<>> /\ Head(queue) = c /\ c \in Commands /\ phase # "none"
      /\ (Possible(c) => CommandStep)
  BY ExecutePossible
<1>3. c = DeleteCmd(c.at) /\ c.at \in Own(chain) /\ c.at > Count
  <2>1. 1 \in 1..d
    OBVIOUS
  <2> QED BY <2>1 DEF Deleting
<1>4. c.at \in 1..Len(chain) /\ c.at \in Nat /\ IsManaged(chain[c.at])
  BY <1>1, <1>3, OwnFacts DEF Own
<1>5. c.op = "delete"
  BY <1>3, <1>4, CommandFacts
<1>6. Possible(c) /\ Inserted(Executed(c), c.at, chain[c.at], chain)
  BY <1>1, <1>2, <1>4, <1>5, ExecutedCommands
<1>7. CommandStep /\ chain' = Executed(c)
  BY <1>2, <1>6 DEF CommandStep
<1>8. Inserted(chain', c.at, chain[c.at], chain)
  BY <1>6, <1>7
<1>9. /\ TypeInv' /\ StepInv' /\ HistoryInv' /\ queue' = Tail(queue) /\ chain' \in Seq(Rules)
      /\ UNCHANGED <<kind, old, new, step, saved, phase, before, original, clean, moved>>
      /\ Cand' = Cand /\ Count' = Count
  BY <1>2, <1>4, <1>7, <1>8, CommandKeeps
<1>10. d - 1 \in 0..Len(Tail(queue)) /\ Deleting(chain', Tail(queue), Count, d - 1)
  BY <1>1, <1>8, DeletingStep
<1>11. Topped(chain', 0, Cand)
  <2>1. c.at > 0 + Len(Cand) /\ 0 \in Nat
    BY <1>1, <1>3, <1>4
  <2> QED BY <1>1, <1>8, <2>1, ToppedBelow
<1> QED BY <1>9, <1>10, <1>11

(* The return of one of the snapshot's rules, at its place below the       *)
(* profile's first n rules.                                                *)
LEMMA ExecuteFilling ==
    ASSUME ChainInv, Execute, step # "idle", NEW n \in Nat, n <= Len(chain),
           \A i \in 1..n : IsManaged(chain[i]), Filling(chain, queue, Shifted(saved, n), n)
    PROVE  /\ TypeInv' /\ StepInv' /\ HistoryInv' /\ queue' = Tail(queue) /\ chain' \in Seq(Rules)
           /\ UNCHANGED <<kind, old, new, step, saved, phase, before, original, clean, moved>>
           /\ Cand' = Cand /\ Count' = Count
           /\ Filling(chain', queue', Shifted(saved, n), n)
           /\ \E p \in 1..Len(chain) + 1 : p > n /\ Inserted(chain, p, queue[1].rule, chain')
<1> DEFINE c == queue[1]
           f == Shifted(saved, n)
<1>1. /\ chain \in Seq(Rules) /\ queue \in Seq(Commands) /\ Len(chain) \in Nat
      /\ original \in Seq(Rules) /\ Positioned(saved)
      /\ Len(Others(original)) <= Len(Others(chain))
  BY InvFacts
<1>2. queue # <<>> /\ Head(queue) = c /\ c \in Commands /\ phase # "none"
      /\ (Possible(c) => CommandStep)
  BY ExecutePossible
<1>3. saved = ManagedPositions(original) /\ DOMAIN saved = Own(original)
  BY <1>1, PositionedFacts DEF ChainInv, HistoryInv
<1>4. /\ Positioned(f) /\ \A i \in DOMAIN f : i > n
      /\ Cardinality(DOMAIN f) = Cardinality(Own(original))
      /\ \A t \in 1..Cardinality(Own(original)) : Nth(DOMAIN f, t) = Nth(Own(original), t) + n
  <2>1. /\ Positioned(f) /\ \A i \in DOMAIN f : i > n
        /\ Cardinality(DOMAIN f) = Cardinality(DOMAIN saved)
        /\ \A t \in 1..Cardinality(DOMAIN saved) : Nth(DOMAIN f, t) = Nth(DOMAIN saved, t) + n
    BY <1>1, ShiftedFacts, Zenon
  <2> QED BY <1>3, <2>1
<1>5. Cardinality(Own(original)) \in Nat
  BY <1>1, OwnFacts
<1>6. Filling(chain, queue, f, n)
  OBVIOUS
<1> HIDE DEF f
<1>7. /\ c.op = "insert" /\ c.at > n /\ c.at \in Nat
      /\ c.rule \in Rules /\ IsManaged(c.rule)
      /\ \E t \in 0..Cardinality(DOMAIN f) - 1 :
            c.at = Nth(DOMAIN f, t + 1) /\ Cardinality({i \in Own(chain) : i > n}) = t
      /\ \A d : Inserted(chain, c.at, c.rule, d) => Filling(d, Tail(queue), f, n)
  BY <1>1, <1>2, <1>4, <1>6, FillingStep
<1> HIDE DEF c
<1>8. PICK t \in 0..Cardinality(Own(original)) - 1 :
         c.at = Nth(DOMAIN f, t + 1) /\ Cardinality({i \in Own(chain) : i > n}) = t
  BY <1>4, <1>7
<1>9. t + 1 \in 1..Cardinality(Own(original))
  BY <1>5
<1>10. c.at = Nth(Own(original), t + 1) + n
  BY <1>4, <1>8, <1>9
<1>11. Nth(Own(original), t + 1) + n <= Len(chain) + 1
  BY <1>1, <1>8, FillingFits
<1>12. c.at \in 1..Len(chain) + 1
  BY <1>1, <1>7, <1>10, <1>11
<1>13. Possible(c) /\ Inserted(chain, c.at, c.rule, Executed(c))
  BY <1>1, <1>2, <1>7, <1>12, ExecutedCommands
<1>14. CommandStep /\ chain' = Executed(c)
  BY <1>2, <1>13 DEF CommandStep
<1>15. Inserted(chain, c.at, c.rule, chain')
  BY <1>13, <1>14
<1>16. /\ TypeInv' /\ StepInv' /\ HistoryInv' /\ queue' = Tail(queue) /\ chain' \in Seq(Rules)
       /\ UNCHANGED <<kind, old, new, step, saved, phase, before, original, clean, moved>>
       /\ Cand' = Cand /\ Count' = Count
  BY <1>2, <1>7, <1>14, <1>15, CommandKeeps
<1>17. Filling(chain', queue', f, n)
  BY <1>7, <1>15, <1>16
<1> QED BY <1>7, <1>12, <1>15, <1>16, <1>17 DEF c, f

(* finalize deletes the old rules below the candidate. *)
LEMMA ExecuteFinalize ==
    ASSUME ChainInv, Execute, phase = "finalize"
    PROVE  ChainInv'
<1>1. Topped(chain, 0, Cand) /\ Deleting(chain, queue, Count, Len(queue))
  BY DEF ChainInv, FinalizeInv
<1>2. queue \in Seq(Commands) /\ queue # <<>>
  BY InvFacts, ExecutePossible
<1>3. Len(queue) \in Nat /\ Len(queue) # 0 /\ Len(Tail(queue)) = Len(queue) - 1
  BY <1>2
<1>4. /\ TypeInv' /\ StepInv' /\ HistoryInv' /\ queue' = Tail(queue) /\ UNCHANGED phase
      /\ Cand' = Cand /\ Count' = Count /\ Topped(chain', 0, Cand)
      /\ Deleting(chain', queue', Count, Len(queue) - 1)
  BY <1>1, <1>3, ExecuteDeletion
<1>5. FinalizeInv'
  BY <1>3, <1>4 DEF FinalizeInv
<1> QED BY <1>4, <1>5, OnePhase

(* The candidate is made of the profile's rules. *)
LEMMA ToppedManaged ==
    ASSUME ChainInv, Topped(chain, 0, Cand)
    PROVE  Count <= Len(chain) /\ \A i \in 1..Count : IsManaged(chain[i])
<1>1. /\ chain \in Seq(Rules) /\ Cand \in Seq(Rules) /\ Count = Len(Cand) /\ Count \in Nat
      /\ \A i \in 1..Count : IsManaged(Cand[i])
  BY InvFacts
<1>2. Len(Cand) <= Len(chain) /\ \A i \in 1..Len(Cand) : chain[i] = Cand[i]
  BY <1>1, ToppedForms, PrefixIndex
<1> QED BY <1>1, <1>2

(* The deletions of stage_old are done. *)
LEMMA DeletingDone ==
    ASSUME NEW c \in Seq(Rules), NEW f, Positioned(f), NEW n \in Nat, NEW q \in Seq(Commands),
           Deleting(c, q, n, 0), Followed(q, 0, InsertPositions(f))
    PROVE  Filling(c, q, f, n)
<1>1. \A i \in Own(c) : ~ (i > n)
  <2>1. \A i \in 1..0 : FALSE
    OBVIOUS
  <2> QED BY <2>1 DEF Deleting
<1> QED BY <1>1, FillingStart

(* stage_old: first the deletions, then the snapshot's rules. *)
LEMMA ExecuteStage ==
    ASSUME ChainInv, Execute, phase = "stage_old"
    PROVE  ChainInv'
<1> DEFINE f == Shifted(saved, Count)
           r == InsertPositions(f)
<1>1. Topped(chain, 0, Cand) /\ Topped(before, 0, Cand) /\ step # "idle"
  BY DEF ChainInv, StageInv, StepInv
<1>2. /\ \/ \E d \in 0..Len(queue) : Deleting(chain, queue, Count, d) /\ Followed(queue, d, r)
         \/ Filling(chain, queue, f, Count)
  BY DEF ChainInv, StageInv
<1>3. queue \in Seq(Commands) /\ queue # <<>> /\ chain \in Seq(Rules) /\ Positioned(saved)
      /\ Count \in Nat /\ Cand \in Seq(Rules) /\ Count = Len(Cand) /\ Len(chain) \in Nat
  BY InvFacts, ExecutePossible
<1>4. Positioned(f)
  BY <1>3, ShiftedFacts, Zenon
<1>5. r \in Seq(Commands)
  BY <1>4, InsertPositionsFacts
<1>6. CASE \E d \in 0..Len(queue) : d # 0 /\ Deleting(chain, queue, Count, d) /\ Followed(queue, d, r)
  <2>1. PICK d \in 0..Len(queue) : d # 0 /\ Deleting(chain, queue, Count, d) /\ Followed(queue, d, r)
    BY <1>6
  <2>2. d \in Nat
    BY <1>3
  <2>3. /\ TypeInv' /\ StepInv' /\ HistoryInv' /\ queue' = Tail(queue)
        /\ UNCHANGED <<phase, before, saved>>
        /\ Cand' = Cand /\ Count' = Count /\ Topped(chain', 0, Cand)
        /\ d - 1 \in 0..Len(queue') /\ Deleting(chain', queue', Count, d - 1)
    BY <1>1, <2>1, <2>2, ExecuteDeletion
  <2>4. Followed(queue', d - 1, r)
    BY <1>3, <1>5, <2>1, <2>2, <2>3, FollowedTail
  <2>5. /\ Deleting(chain', queue', Count', d - 1) /\ d - 1 \in 0..Len(queue')
        /\ Followed(queue', d - 1, InsertPositions(Shifted(saved', Count')))
    BY <2>3, <2>4
  <2>6. StageInv'
    BY <1>1, <2>3, <2>5 DEF StageInv
  <2> QED BY <2>3, <2>6, OnePhase
<1>7. CASE Filling(chain, queue, f, Count)
  <2>1. Count <= Len(chain) /\ \A i \in 1..Count : IsManaged(chain[i])
    BY <1>1, ToppedManaged
  <2>2. /\ TypeInv' /\ StepInv' /\ HistoryInv' /\ queue' = Tail(queue)
        /\ UNCHANGED <<phase, before, saved>>
        /\ Cand' = Cand /\ Count' = Count /\ Filling(chain', queue', f, Count)
        /\ \E p \in 1..Len(chain) + 1 : p > Count /\ Inserted(chain, p, queue[1].rule, chain')
    BY <1>1, <1>3, <1>7, <2>1, ExecuteFilling
  <2>3. PICK p \in 1..Len(chain) + 1 : p > Count /\ Inserted(chain, p, queue[1].rule, chain')
    BY <2>2
  <2>4. Topped(chain', 0, Cand)
    <3>1. p > 0 + Len(Cand) /\ 0 \in Nat
      BY <1>3, <2>3
    <3> QED BY <1>1, <1>3, <2>3, <3>1, ToppedBelow
  <2>5. Filling(chain', queue', Shifted(saved', Count'), Count')
    BY <2>2
  <2>6. StageInv'
    BY <1>1, <2>2, <2>4, <2>5 DEF StageInv
  <2> QED BY <2>2, <2>6, OnePhase
<1>8. CASE Deleting(chain, queue, Count, 0) /\ Followed(queue, 0, r)
  <2>1. Filling(chain, queue, f, Count)
    BY <1>3, <1>4, <1>8, DeletingDone
  <2> QED BY <1>7, <2>1
<1> QED BY <1>2, <1>6, <1>7, <1>8

(* drop_candidate takes the candidate away again. *)
LEMMA ExecuteDrop ==
    ASSUME ChainInv, Execute, phase = "drop_candidate"
    PROVE  ChainInv'
<1> DEFINE c == queue[1]
<1>1. /\ chain \in Seq(Rules) /\ queue \in Seq(Commands)
      /\ Cand \in Seq(Rules) /\ Count = Len(Cand) /\ Count \in Nat /\ Len(chain) \in Nat
      /\ \A i \in 1..Count : IsManaged(Cand[i]) /\ Positioned(saved)
  BY InvFacts
<1>2. queue # <<>> /\ Head(queue) = c /\ c \in Commands /\ (Possible(c) => CommandStep)
  BY ExecutePossible
<1>3. PICK k \in 0..Count : queue = DeleteTop(k) /\ Stacked(chain, k, Cand, <<>>)
                              /\ Obsolete(chain, k) = Shifted(saved, k)
  BY DEF ChainInv, DropInv
<1>4. k \in Nat /\ k # 0 /\ Tail(queue) = DeleteTop(k - 1) /\ c = DeleteCmd(1)
  <2>1. k \in Nat
    BY <1>1
  <2>2. k # 0
    BY <1>2, <1>3, <2>1, DeleteTopFacts
  <2>3. k > 0 /\ 1 \in 1..k
    BY <2>1, <2>2
  <2> QED BY <1>3, <2>1, <2>2, <2>3, DeleteTopFacts
<1>5. c.op = "delete" /\ c.at = 1
  BY <1>4, CommandFacts
<1> HIDE DEF c
<1>6. 1 \in 1..Len(chain)
  <2>1. k + Len(<<>>) <= Len(chain) /\ Len(<<>>) = 0
    BY <1>3 DEF Stacked
  <2> QED BY <1>1, <1>4, <2>1
<1>7. Possible(c) /\ Inserted(Executed(c), 1, chain[1], chain)
  BY <1>1, <1>2, <1>5, <1>6, ExecutedCommands
<1>8. CommandStep /\ chain' = Executed(c)
  BY <1>2, <1>7 DEF CommandStep
<1>9. Inserted(chain', 1, chain[1], chain)
  BY <1>7, <1>8
<1>10. Stacked(chain', k - 1, Cand, <<>>) /\ chain[1] = Cand[Len(Cand) - k + 1]
  <2>1. <<>> \in Seq(Rules)
    OBVIOUS
  <2> QED BY <1>1, <1>3, <1>4, <1>9, <2>1, StackedPop
<1>11. IsManaged(chain[1])
  <2>1. Len(Cand) - k + 1 \in 1..Count
    BY <1>1, <1>4
  <2> QED BY <1>1, <1>10, <2>1
<1>12. /\ TypeInv' /\ StepInv' /\ HistoryInv' /\ queue' = Tail(queue)
       /\ UNCHANGED <<saved, phase>> /\ Cand' = Cand /\ Count' = Count
  BY <1>8, <1>9, <1>11, CommandKeeps
<1>13. k - 1 \in 0..Count
  BY <1>1, <1>4
<1>14. Obsolete(chain', k - 1) = Shifted(saved, k - 1)
  BY <1>1, <1>3, <1>4, <1>9, DropStep
<1>15. /\ queue' = DeleteTop(k - 1) /\ Stacked(chain', k - 1, Cand', <<>>) /\ k - 1 \in 0..Count'
       /\ Obsolete(chain', k - 1) = Shifted(saved', k - 1)
  BY <1>4, <1>10, <1>12, <1>13, <1>14
<1>16. DropInv'
  BY <1>15 DEF DropInv
<1> QED BY <1>12, <1>16, OnePhase

(* clear() deletes one of the profile's rules by its content. *)
LEMMA ExecuteClearing ==
    ASSUME ChainInv, Execute, Clearing(chain, queue), Len(Managed(chain)) # 0
    PROVE  /\ TypeInv' /\ StepInv' /\ HistoryInv' /\ queue' = Tail(queue) /\ chain' \in Seq(Rules)
           /\ UNCHANGED <<kind, old, new, step, saved, phase, before, original, clean, moved>>
           /\ Cand' = Cand /\ Count' = Count
           /\ Clearing(chain', queue') /\ Len(Managed(chain')) = Len(Managed(chain)) - 1
           /\ Len(Managed(chain)) \in Nat
<1> DEFINE c == queue[1]
           e == RemoveFirst(chain, c.rule)
<1>1. chain \in Seq(Rules) /\ queue \in Seq(Commands)
  BY InvFacts
<1>2. queue # <<>> /\ Head(queue) = c /\ c \in Commands /\ phase # "none"
      /\ (Possible(c) => CommandStep)
  BY ExecutePossible
<1>3. /\ c.op = "delete_rule" /\ Contains(chain, c.rule) /\ IsManaged(c.rule)
      /\ \E p \in 1..Len(chain) : Inserted(e, p, c.rule, chain)
      /\ Len(Managed(e)) = Len(Managed(chain)) - 1 /\ Clearing(e, Tail(queue))
  BY <1>1, ClearingStep, Zenon
<1>4. Possible(c) /\ Executed(c) = e
  BY <1>1, <1>2, <1>3, ExecutedCommands
<1> HIDE DEF e, c
<1>5. CommandStep /\ chain' = e
  BY <1>2, <1>4 DEF CommandStep
<1>6. PICK p \in 1..Len(chain) : Inserted(chain', p, c.rule, chain)
  BY <1>3, <1>5
<1>7. /\ TypeInv' /\ StepInv' /\ HistoryInv' /\ queue' = Tail(queue) /\ chain' \in Seq(Rules)
      /\ UNCHANGED <<kind, old, new, step, saved, phase, before, original, clean, moved>>
      /\ Cand' = Cand /\ Count' = Count
  BY <1>2, <1>3, <1>5, <1>6, CommandKeeps
<1>8. Len(Managed(chain)) \in Nat
  BY <1>1, ClearManagedFacts
<1> QED BY <1>3, <1>5, <1>7, <1>8

(* apply: the profile's rules go, then the candidate is put on top. *)
LEMMA ExecuteApply ==
    ASSUME ChainInv, Execute, phase = "apply"
    PROVE  ChainInv'
<1> DEFINE c == queue[1]
           r == InsertOnTop(Cand)
           n == Len(Managed(chain))
<1>1. /\ chain \in Seq(Rules) /\ queue \in Seq(Commands)
      /\ Cand \in Seq(Rules) /\ Count = Len(Cand) /\ Len(chain) \in Nat
      /\ \A i \in 1..Count : IsManaged(Cand[i])
  BY InvFacts
<1>2. queue # <<>> /\ Head(queue) = c /\ c \in Commands /\ (Possible(c) => CommandStep)
  BY ExecutePossible
<1>3. (Clearing(chain, queue) /\ Followed(queue, n, r)) \/ Stacking(chain, queue, Cand)
  BY DEF ChainInv, ApplyInv
<1>4. r \in Seq(Commands)
  BY <1>1, InsertOnTopFacts
<1>5. CASE Clearing(chain, queue) /\ Followed(queue, n, r) /\ n # 0
  <2>1. /\ TypeInv' /\ StepInv' /\ HistoryInv' /\ queue' = Tail(queue) /\ UNCHANGED phase
        /\ Cand' = Cand /\ Clearing(chain', queue') /\ Len(Managed(chain')) = n - 1 /\ n \in Nat
    BY <1>5, ExecuteClearing
  <2> HIDE DEF n
  <2>2. Followed(queue', n - 1, r)
    BY <1>1, <1>4, <1>5, <2>1, FollowedTail
  <2>3. ApplyInv'
    BY <2>1, <2>2 DEF ApplyInv
  <2> QED BY <2>1, <2>3, OnePhase
<1>6. CASE Stacking(chain, queue, Cand)
  <2>1. /\ c.op = "insert" /\ c.at = 1 /\ c.rule \in Rules /\ IsManaged(c.rule)
        /\ \A d : Inserted(chain, 1, c.rule, d) => Stacking(d, Tail(queue), Cand)
    BY <1>1, <1>2, <1>6, StackingStep
  <2> HIDE DEF c
  <2>2. 1 \in 1..Len(chain) + 1
    BY <1>1
  <2>3. Possible(c) /\ Inserted(chain, 1, c.rule, Executed(c))
    BY <1>1, <1>2, <2>1, <2>2, ExecutedCommands
  <2>4. CommandStep /\ chain' = Executed(c)
    BY <1>2, <2>3 DEF CommandStep
  <2>5. Inserted(chain, 1, c.rule, chain')
    BY <2>3, <2>4
  <2>6. /\ TypeInv' /\ StepInv' /\ HistoryInv' /\ queue' = Tail(queue) /\ UNCHANGED phase /\ Cand' = Cand
    BY <2>1, <2>4, <2>5, CommandKeeps
  <2>7. ApplyInv'
    BY <2>1, <2>5, <2>6 DEF ApplyInv
  <2> QED BY <2>6, <2>7, OnePhase
<1>7. CASE Clearing(chain, queue) /\ Followed(queue, n, r) /\ n = 0
  <2>1. Stacking(chain, queue, Cand)
    BY <1>1, <1>7, StackingStart
  <2> QED BY <1>6, <2>1
<1> QED BY <1>3, <1>5, <1>6, <1>7

(* restore: the profile's rules go, then the snapshot's come back. *)
LEMMA ExecuteRestore ==
    ASSUME ChainInv, Execute, phase = "restore"
    PROVE  ChainInv'
<1> DEFINE r == InsertPositions(saved)
           n == Len(Managed(chain))
<1>1. chain \in Seq(Rules) /\ queue \in Seq(Commands) /\ Positioned(saved) /\ Len(chain) \in Nat
  BY InvFacts
<1>2. (Clearing(chain, queue) /\ Followed(queue, n, r)) \/ Filling(chain, queue, saved, 0)
  BY DEF ChainInv, RestoreInv
<1>3. r \in Seq(Commands)
  BY <1>1, InsertPositionsFacts
<1>4. Shifted(saved, 0) = saved /\ 0 \in Nat
  BY <1>1, ShiftedFacts, Zenon
<1>5. CASE Clearing(chain, queue) /\ Followed(queue, n, r) /\ n # 0
  <2>1. /\ TypeInv' /\ StepInv' /\ HistoryInv' /\ queue' = Tail(queue) /\ UNCHANGED <<phase, saved>>
        /\ Clearing(chain', queue') /\ Len(Managed(chain')) = n - 1 /\ n \in Nat
    BY <1>5, ExecuteClearing
  <2> HIDE DEF n
  <2>2. Followed(queue', n - 1, r)
    BY <1>1, <1>3, <1>5, <2>1, FollowedTail
  <2>3. RestoreInv'
    BY <2>1, <2>2 DEF RestoreInv
  <2> QED BY <2>1, <2>3, OnePhase
<1>6. CASE Filling(chain, queue, saved, 0)
  <2>1. step # "idle" /\ 0 <= Len(chain) /\ \A i \in 1..0 : IsManaged(chain[i])
    BY <1>1 DEF ChainInv, StepInv
  <2>2. /\ TypeInv' /\ StepInv' /\ HistoryInv' /\ UNCHANGED <<phase, saved>>
        /\ Filling(chain', queue', Shifted(saved, 0), 0)
    BY <1>4, <1>6, <2>1, ExecuteFilling
  <2>3. RestoreInv'
    BY <1>4, <2>2 DEF RestoreInv
  <2> QED BY <2>2, <2>3, OnePhase
<1>7. CASE Clearing(chain, queue) /\ Followed(queue, n, r) /\ n = 0
  <2>1. \A i \in Own(chain) : ~ (i > 0)
    BY <1>1, <1>7, ClearingEnd
  <2>2. Filling(chain, queue, saved, 0)
    BY <1>1, <1>4, <1>7, <2>1, FillingStart
  <2> QED BY <1>6, <2>2
<1> QED BY <1>2, <1>5, <1>6, <1>7

(* A process that had a failure ends without a success, and a direct       *)
(* mutation has no candidate to look after.                                *)
LEMMA GivesUp ==
    ASSUME ChainInv, step # "idle", ~Staged, NEW outcome \in {"failed", "unproven"}, Exit(outcome),
           chain' = chain, faults' \in 0..MaxFaults, clean' = FALSE
    PROVE  ChainInv'
<1>1. /\ TypeInv' /\ StepInv' /\ HistoryInv' /\ phase' = "none" /\ step' = outcome
      /\ ~Staged' /\ ~Protected'
  BY Exited DEF Steps, Protected
<1>2. NoneInv'
  BY <1>1 DEF NoneInv
<1> QED BY <1>1, <1>2, OnePhase

(* put_back: a command, or an end that reports the failure. *)
LEMMA ExecutePutBack ==
    ASSUME ChainInv, Execute, phase \in {"put_back", "put_back_restore"}
    PROVE  ChainInv'
<1> DEFINE c == queue[1]
<1>1. chain \in Seq(Rules) /\ queue \in Seq(Commands) /\ Len(chain) \in Nat
  BY InvFacts
<1>2. /\ queue # <<>> /\ Head(queue) = c /\ c \in Commands /\ phase # "none"
      /\ (Possible(c) => CommandStep)
      /\ ~Possible(c) => Raise /\ UNCHANGED <<faults, clean>>
  BY ExecutePossible
<1>3. /\ ~clean
      /\ \A i \in 1..Len(queue) :
            /\ queue[i].op \in {"insert", "delete_rule"} /\ IsManaged(queue[i].rule)
            /\ queue[i].op = "insert" => queue[i].at >= 1
  BY DEF ChainInv, PutBackInv
<1>4. step # "idle" /\ ~Staged
  BY DEF ChainInv, StepInv
<1>5. 1 \in 1..Len(queue) /\ Len(Tail(queue)) = Len(queue) - 1
      /\ \A i \in 1..Len(queue) - 1 : i + 1 \in 1..Len(queue) /\ Tail(queue)[i] = queue[i + 1]
  BY <1>1, <1>2
<1>6. /\ c.op \in {"insert", "delete_rule"} /\ IsManaged(c.rule)
      /\ c.op = "insert" => c.at >= 1
  BY <1>3, <1>5
<1>7. c.at \in Nat /\ c.rule \in Rules
  BY <1>2 DEF Commands
<1> HIDE DEF c
<1>8. CASE Possible(c)
  <2>1. CommandStep /\ chain' = Executed(c)
    BY <1>2, <1>8 DEF CommandStep
  <2>2. \E p : Inserted(chain, p, c.rule, chain') \/ Inserted(chain', p, c.rule, chain)
    <3>1. CASE c.op = "insert"
      <4>1. c.at <= Len(chain) + 1
        BY <1>1, <1>2, <1>8, <3>1, ExecutedCommands
      <4>2. c.at \in 1..Len(chain) + 1
        BY <1>1, <1>6, <1>7, <3>1, <4>1
      <4>3. Inserted(chain, c.at, c.rule, chain')
        BY <1>1, <1>2, <2>1, <3>1, <4>2, ExecutedCommands
      <4> QED BY <4>3
    <3>2. CASE c.op = "delete_rule"
      <4>1. Contains(chain, c.rule) /\ Executed(c) = RemoveFirst(chain, c.rule)
        BY <1>1, <1>2, <1>8, <3>2, ExecutedCommands
      <4>2. \E p \in 1..Len(chain) : Inserted(RemoveFirst(chain, c.rule), p, c.rule, chain)
        BY <1>1, <1>7, <4>1, RemoveFirstRemoves
      <4> QED BY <2>1, <4>1, <4>2
    <3> QED BY <1>6, <3>1, <3>2
  <2>3. /\ TypeInv' /\ StepInv' /\ HistoryInv' /\ queue' = Tail(queue) /\ UNCHANGED <<phase, clean>>
    BY <1>2, <1>6, <2>1, <2>2, CommandKeeps
  <2>4. PutBackInv'
    BY <1>3, <1>5, <2>3 DEF PutBackInv
  <2> QED BY <2>3, <2>4, OnePhase
<1>9. CASE ~Possible(c)
  <2>1. Raise /\ UNCHANGED <<faults, clean>>
    BY <1>2, <1>9
  <2>2. chain' = chain /\ \E outcome \in {"failed", "unproven"} : Exit(outcome)
    BY <2>1 DEF Raise
  <2>3. faults' \in 0..MaxFaults /\ clean' = FALSE
    BY <1>3, <2>1 DEF ChainInv, TypeInv
  <2> QED BY <1>4, <2>2, <2>3, GivesUp
<1> QED BY <1>8, <1>9

(* The next command of the running process, whatever it is doing. *)
LEMMA ExecuteInv ==
    ASSUME ChainInv, Execute
    PROVE  ChainInv'
<1>1. phase # "none" /\ phase \in Phases
  BY ExecutePossible DEF ChainInv, TypeInv
<1> QED BY <1>1, ExecutePrepare, ExecuteUndo, ExecuteFinalize, ExecuteStage, ExecuteDrop,
           ExecuteApply, ExecuteRestore, ExecutePutBack DEF Phases

-----------------------------------------------------------------------------
(* Failures, checks and other programs *)

(* The port that is served is closed in every phase of a staged edit. *)
LEMMA ServedClosed ==
    ASSUME ChainInv, Protected
    PROVE  /\ phase \in {"prepare", "undo_prepare", "drop_candidate"} => Closed(chain, old.port)
           /\ phase \in {"finalize", "stage_old"} => Closed(chain, new.port)
           /\ (phase = "none" /\ step \in {"staged", "failed", "applied"}) => Closed(chain, new.port)
<1>1. /\ chain \in Seq(Rules) /\ before \in Seq(Rules) /\ original \in Seq(Rules)
      /\ Cand \in Seq(Rules) /\ Count = Len(Cand) /\ Count \in Nat /\ new \in Configs
      /\ Len(chain) \in Nat
      /\ \A i \in 1..Count : \A p : ~Opens(Cand[i], p)
  BY InvFacts
<1>2. Staged /\ new.enabled /\ Closed(original, old.port)
  BY DEF Protected, Staged
<1>3. ASSUME phase \in {"prepare", "undo_prepare"} PROVE Closed(chain, old.port)
  <2>1. Closed(before, old.port) /\ \E k \in 0..Count : Stacked(chain, k, Cand, before)
    BY <1>3 DEF ChainInv, PrepareInv
  <2> QED BY <1>1, <2>1, ClosedStacked
<1>4. ASSUME phase = "drop_candidate" PROVE Closed(chain, old.port)
  <2>1. PICK k \in 0..Count : Stacked(chain, k, Cand, <<>>) /\ Obsolete(chain, k) = Shifted(saved, k)
    BY <1>4 DEF ChainInv, DropInv
  <2>2. saved = ManagedPositions(original)
    BY <1>4 DEF ChainInv, StepInv, HistoryInv
  <2> QED BY <1>1, <1>2, <2>1, <2>2, ClosedShifted
<1>5. ASSUME NEW m \in Nat, Topped(chain, m, Cand) PROVE Closed(chain, new.port)
  BY <1>1, <1>2, <1>5, ClosedTopped DEF Cand
<1>6. ASSUME phase \in {"finalize", "stage_old"} PROVE Closed(chain, new.port)
  <2>1. Topped(chain, 0, Cand) /\ 0 \in Nat
    BY <1>6 DEF ChainInv, FinalizeInv, StageInv
  <2> QED BY <1>5, <2>1
<1>7. ASSUME phase = "none", step \in {"staged", "failed", "applied"} PROVE Closed(chain, new.port)
  <2>1. PICK m \in 0..Len(chain) : Topped(chain, m, Cand)
    BY <1>2, <1>7 DEF ChainInv, NoneInv
  <2>2. m \in Nat
    BY <1>1
  <2> QED BY <1>5, <2>1, <2>2
<1> QED BY <1>3, <1>4, <1>6, <1>7

(* The handler of a failed prepare. *)
LEMMA RaiseUndo ==
    ASSUME ChainInv, phase = "prepare", Raise, faults' \in 0..MaxFaults, clean' = clean
    PROVE  ChainInv'
<1>1. /\ chain' = chain /\ phase' = "undo_prepare" /\ queue' = UndoPrepare
      /\ UNCHANGED <<kind, old, new, step, saved, before, original, foreign, moved>>
  BY DEF Raise
<1>2. /\ Cand \in Seq(Rules) /\ Count = Len(Cand) /\ Count \in Nat /\ queue \in Seq(Commands)
  BY InvFacts
<1>3. PICK k \in 0..Count :
         /\ Stacked(chain, k, Cand, before)
         /\ clean => Len(chain) = k + Len(before)
         /\ Followed(InsertOnTop(Cand), k, queue)
  BY DEF ChainInv, PrepareInv
<1>4. /\ ~moved => Extends(original, before)
      /\ Protected => Closed(before, old.port)
  BY DEF ChainInv, PrepareInv
<1>5. k = Count - Len(queue) /\ k \in Nat
  <2>1. Len(InsertOnTop(Cand)) = Count /\ Len(queue) \in Nat
    BY <1>2, InsertOnTopFacts
  <2>2. Count = k + Len(queue)
    BY <1>3, <2>1 DEF Followed
  <2> QED BY <1>2, <2>1, <2>2
<1>6. queue' = DeleteTop(k) /\ queue' \in Seq(Commands)
  BY <1>1, <1>5, DeleteTopFacts DEF UndoPrepare
<1>7. TypeInv'
  BY <1>1, <1>6 DEF ChainInv, TypeInv, Phases
<1>8. Cand' = Cand /\ Count' = Count /\ (Staged' <=> Staged) /\ (Protected' <=> Protected)
  BY <1>1 DEF Cand, Count, Staged, Protected
<1>9. StepInv'
  BY <1>1, <1>8 DEF ChainInv, StepInv
<1>10. HistoryInv'
  BY <1>1 DEF ChainInv, HistoryInv
<1>11. PrepareInv'
  BY <1>1, <1>3, <1>4, <1>6, <1>8 DEF PrepareInv
<1> QED BY <1>1, <1>7, <1>9, <1>10, <1>11, OnePhase

(* The handler of a failed mutation: its commands are about the profile's  *)
(* rules only.                                                             *)
LEMMA RaisePutBack ==
    ASSUME ChainInv, phase \in {"apply", "restore"}, Raise, faults' \in 0..MaxFaults, clean' = FALSE
    PROVE  ChainInv'
<1> DEFINE a == ClearManaged(chain)
           f == ManagedPositions(before)
           r == InsertPositions(f)
<1>1. /\ chain' = chain /\ queue' = PutBack
      /\ phase' = IF phase = "apply" THEN "put_back" ELSE "put_back_restore"
      /\ UNCHANGED <<kind, old, new, step, saved, before, original, foreign, moved>>
  BY DEF Raise
<1>2. chain \in Seq(Rules) /\ before \in Seq(Rules)
  BY InvFacts
<1>3. queue' = a \o r
  BY <1>1 DEF PutBack
<1>4. /\ a \in Seq(Commands) /\ Len(a) = Len(Managed(chain)) /\ Len(Managed(chain)) \in Nat
      /\ \A n \in 1..Len(Managed(chain)) : a[n] = DeleteRuleCmd(Managed(chain)[n])
  BY <1>2, ClearManagedFacts
<1>5. /\ Managed(chain) \in Seq(Rules)
      /\ \A n \in 1..Len(Managed(chain)) : IsManaged(Managed(chain)[n])
  BY <1>2, ManagedFacts
<1>6. \A n \in 1..Len(a) : a[n].op = "delete_rule" /\ IsManaged(a[n].rule)
  <2>1. \A n \in 1..Len(a) : Managed(chain)[n] \in Rules
    BY <1>4, <1>5
  <2> QED BY <1>4, <1>5, <2>1, CommandFacts
<1>7. Positioned(f)
  BY <1>2, PositionedFacts
<1>8. /\ Cardinality(DOMAIN f) \in Nat /\ r \in Seq(Commands) /\ Len(r) = Cardinality(DOMAIN f)
      /\ \A n \in 1..Len(r) :
            /\ r[n] = InsertCmd(Nth(DOMAIN f, n), f[Nth(DOMAIN f, n)])
            /\ Nth(DOMAIN f, n) \in DOMAIN f
            /\ f[Nth(DOMAIN f, n)] \in Rules /\ IsManaged(f[Nth(DOMAIN f, n)])
  BY <1>7, InsertPositionsFacts
<1>9. \A i \in DOMAIN f : i \in Nat /\ i >= 1
  <2>1. \A i \in DOMAIN f : i \in Nat /\ i # 0
    BY <1>7 DEF Positioned
  <2> QED BY <2>1
<1> HIDE DEF a, f, r
<1>10. \A n \in 1..Len(r) : r[n].op = "insert" /\ IsManaged(r[n].rule) /\ r[n].at >= 1
  BY <1>8, <1>9, CommandFacts
<1>11. /\ a \o r \in Seq(Commands) /\ Len(a \o r) = Len(a) + Len(r)
       /\ \A i \in 1..Len(a) : (a \o r)[i] = a[i]
       /\ Followed(a \o r, Len(a), r)
  BY <1>4, <1>8, ConcatFollowed
<1>12. ASSUME NEW i \in 1..Len(a \o r)
       PROVE  /\ (a \o r)[i].op \in {"insert", "delete_rule"} /\ IsManaged((a \o r)[i].rule)
              /\ (a \o r)[i].op = "insert" => (a \o r)[i].at >= 1
  <2>1. Len(a) \in Nat /\ Len(r) \in Nat
    BY <1>4, <1>8
  <2>2. CASE i <= Len(a)
    <3>1. i \in 1..Len(a)
      BY <2>1, <2>2
    <3>2. (a \o r)[i].op = "delete_rule" /\ IsManaged((a \o r)[i].rule)
      BY <1>6, <1>11, <3>1
    <3> QED BY <3>2
  <2>3. CASE ~ (i <= Len(a))
    <3>1. i - Len(a) \in 1..Len(r) /\ Len(a) + (i - Len(a)) = i
      BY <1>11, <2>1, <2>3
    <3>2. (a \o r)[i] = r[i - Len(a)]
      BY <1>11, <3>1 DEF Followed
    <3> QED BY <1>10, <3>1, <3>2
  <2> QED BY <2>2, <2>3
<1>13. TypeInv'
  BY <1>1, <1>3, <1>11 DEF ChainInv, TypeInv, Phases
<1>14. Staged' <=> Staged
  BY <1>1 DEF Staged
<1>15. StepInv'
  BY <1>1, <1>14 DEF ChainInv, StepInv
<1>16. HistoryInv'
  BY <1>1 DEF ChainInv, HistoryInv
<1>17. PutBackInv'
  BY <1>3, <1>12 DEF PutBackInv
<1> QED BY <1>1, <1>13, <1>15, <1>16, <1>17, OnePhase

(* An undo that is cut short, for a reason. *)
LEMMA UnprovenEnds ==
    ASSUME ChainInv, phase \in {"undo_prepare", "stage_old", "drop_candidate"}, Exit("unproven"),
           chain' = chain, faults' \in 0..MaxFaults, clean' = FALSE
    PROVE  ChainInv'
<1>1. step # "idle"
  BY DEF ChainInv, StepInv
<1>2. /\ TypeInv' /\ StepInv' /\ HistoryInv' /\ phase' = "none" /\ step' = "unproven"
      /\ UNCHANGED <<chain, old, new>> /\ (Protected' <=> Protected)
  BY <1>1, Exited DEF Steps
<1>3. (Protected /\ old.port = new.port) => Closed(chain, old.port)
  BY ServedClosed
<1>4. NoneInv'
  BY <1>2, <1>3 DEF NoneInv
<1> QED BY <1>2, <1>4, OnePhase

(* A failed command or reading, in each phase. *)
LEMMA FailInv ==
    ASSUME ChainInv, Fail
    PROVE  ChainInv'
<1>1. /\ phase # "none" /\ Raise /\ clean' = (clean /\ phase = "prepare")
      /\ faults < MaxFaults /\ faults' = faults + 1
  BY DEF Fail
<1>2. faults' \in 0..MaxFaults
  <2>1. faults \in 0..MaxFaults /\ MaxFaults \in Nat
    BY FirewallAssumption DEF ChainInv, TypeInv
  <2> QED BY <1>1, <2>1
<1>3. clean \in BOOLEAN /\ phase \in Phases
  BY DEF ChainInv, TypeInv
<1>4. chain' = chain
  BY <1>1 DEF Raise
<1>5. CASE phase = "prepare"
  <2>1. clean' = clean
    BY <1>1, <1>3, <1>5
  <2> QED BY <1>1, <1>2, <1>5, <2>1, RaiseUndo
<1>6. phase # "prepare" => clean' = FALSE
  BY <1>1
<1>7. CASE phase \in {"apply", "restore"}
  BY <1>1, <1>2, <1>6, <1>7, RaisePutBack
<1>8. CASE phase = "finalize"
  <2>1. Exit("failed") /\ step # "idle" /\ Topped(chain, 0, Cand)
    BY <1>1, <1>8 DEF Raise, ChainInv, StepInv, FinalizeInv
  <2>2. /\ TypeInv' /\ StepInv' /\ HistoryInv' /\ phase' = "none" /\ step' = "failed"
        /\ UNCHANGED <<chain, moved>> /\ Cand' = Cand
    BY <1>2, <1>4, <1>6, <1>8, <2>1, Exited DEF Steps
  <2>3. 0 \in 0..Len(chain)
    BY InvFacts
  <2>4. NoneInv'
    BY <1>6, <1>8, <2>1, <2>2, <2>3 DEF NoneInv
  <2> QED BY <2>2, <2>4, OnePhase
<1>9. CASE phase \in {"put_back", "put_back_restore"}
  <2>1. step # "idle" /\ ~Staged
    BY <1>9 DEF ChainInv, StepInv
  <2>2. \E outcome \in {"failed", "unproven"} : Exit(outcome)
    BY <1>1, <1>9 DEF Raise
  <2> QED BY <1>2, <1>4, <1>6, <1>9, <2>1, <2>2, GivesUp
<1>10. CASE phase \in {"undo_prepare", "stage_old", "drop_candidate"}
  <2>1. Exit("unproven")
    BY <1>1, <1>10 DEF Raise
  <2> QED BY <1>2, <1>4, <1>6, <1>10, <2>1, UnprovenEnds
<1> QED BY <1>1, <1>3, <1>5, <1>7, <1>8, <1>9, <1>10 DEF Phases

(* prepare compares the whole chain. *)
LEMMA VerifyPrepare ==
    ASSUME ChainInv, Verify, phase = "prepare"
    PROVE  ChainInv'
<1>1. /\ chain \in Seq(Rules) /\ before \in Seq(Rules) /\ Cand \in Seq(Rules) /\ Len(chain) \in Nat
  BY InvFacts
<1>2. step = "begun" /\ Staged /\ faults \in 0..MaxFaults /\ clean \in BOOLEAN
  BY DEF ChainInv, StepInv, TypeInv
<1>3. CASE Verified
  <2>1. chain = Cand \o before
    BY <1>3 DEF Verified, Cand
  <2>2. Exit("staged") /\ UNCHANGED <<chain, faults, clean>>
    BY <1>3 DEF Verify, Pass
  <2>3. /\ TypeInv' /\ StepInv' /\ HistoryInv' /\ phase' = "none" /\ step' = "staged"
        /\ UNCHANGED <<chain, old, moved>> /\ Cand' = Cand /\ (Protected' <=> Protected)
    BY <1>2, <2>2, Exited DEF Steps
  <2>4. Topped(chain, 0, Cand)
    BY <1>1, <2>1, ToppedForms
  <2>5. Topped(chain, 0, Cand) /\ 0 \in 0..Len(chain)
    BY <1>1, <2>4
  <2>6. Protected => Closed(chain, old.port)
    BY ServedClosed
  <2>7. NoneInv'
    BY <2>3, <2>5, <2>6 DEF NoneInv
  <2> QED BY <2>3, <2>7, OnePhase
<1>4. CASE ~Verified
  BY <1>2, <1>4, RaiseUndo DEF Verify
<1> QED BY <1>3, <1>4

(* A refusal leaves the chain as it was found. *)
LEMMA VerifyUndo ==
    ASSUME ChainInv, Verify, phase = "undo_prepare"
    PROVE  ChainInv'
<1>1. /\ chain \in Seq(Rules) /\ before \in Seq(Rules) /\ Count \in Nat /\ queue = <<>>
  BY InvFacts DEF Verify
<1>2. step = "begun" /\ Staged /\ faults \in 0..MaxFaults /\ clean \in BOOLEAN
  BY DEF ChainInv, StepInv, TypeInv
<1>3. CASE Verified
  <2>1. chain = before
    BY <1>3 DEF Verified
  <2>2. Exit("refused") /\ UNCHANGED <<chain, faults, clean>>
    BY <1>3 DEF Verify, Pass
  <2>3. /\ TypeInv' /\ StepInv' /\ HistoryInv' /\ phase' = "none" /\ step' = "refused"
        /\ UNCHANGED <<chain, old, moved, original>> /\ (Protected' <=> Protected)
    BY <1>2, <2>2, Exited DEF Steps
  <2>4. ~moved => Extends(original, chain)
    BY <2>1 DEF ChainInv, PrepareInv
  <2>5. Protected => Closed(chain, old.port)
    BY ServedClosed
  <2>6. NoneInv'
    BY <2>3, <2>4, <2>5 DEF NoneInv
  <2> QED BY <2>3, <2>6, OnePhase
<1>4. CASE ~Verified
  <2>1. Raise /\ UNCHANGED <<faults, clean>> /\ chain # before
    BY <1>4 DEF Verify, Verified
  <2>2. chain' = chain /\ Exit("unproven")
    BY <2>1 DEF Raise
  <2>3. PICK k \in 0..Count :
           /\ Stacked(chain, k, Cand, before)
           /\ clean => Len(chain) = k + Len(before)
           /\ queue = DeleteTop(k)
    BY DEF ChainInv, PrepareInv
  <2>4. k = 0
    <3>1. k \in Nat
      BY <1>1
    <3> QED BY <1>1, <2>3, <3>1, DeleteTopFacts
  <2>5. ~clean
    <3>1. SUFFICES ASSUME clean PROVE FALSE
      OBVIOUS
    <3>2. Len(chain) = Len(before) /\ Len(before) \in Nat
      BY <1>1, <2>3, <2>4, <3>1
    <3>3. \A i \in 1..Len(before) : 0 + i = i
      BY <1>1
    <3>4. \A i \in 1..Len(before) : chain[i] = before[i]
      BY <2>3, <2>4, <3>3 DEF Stacked
    <3> QED BY <1>1, <2>1, <3>2, <3>4, SeqEqual
  <2> QED BY <1>2, <2>1, <2>2, <2>5, UnprovenEnds
<1> QED BY <1>3, <1>4

(* finalize has left the candidate and nothing else of the profile. *)
LEMMA VerifyFinalize ==
    ASSUME ChainInv, WordInv, Verify, phase = "finalize"
    PROVE  ChainInv'
<1>1. /\ chain \in Seq(Rules) /\ Cand \in Seq(Rules) /\ Count = Len(Cand) /\ Len(chain) \in Nat
      /\ queue = <<>> /\ \A i \in 1..Count : IsManaged(Cand[i])
  BY InvFacts DEF Verify
<1>2. step # "idle" /\ faults \in 0..MaxFaults /\ clean \in BOOLEAN
  BY DEF ChainInv, StepInv, TypeInv
<1>3. Topped(chain, 0, Cand) /\ Deleting(chain, queue, Count, Len(queue))
  BY DEF ChainInv, FinalizeInv
<1>4. \A i \in Own(chain) : ~ (i > Count)
  <2>1. \A i \in 1..Len(queue) : FALSE
    BY <1>1
  <2> QED BY <1>3, <2>1 DEF Deleting
<1>5. ManagedPositions(chain) = ManagedPositions(Cand) /\ Managed(chain) = Cand
  BY <1>1, <1>3, <1>4, FinalizedExact
<1>6. Verified
  BY <1>5 DEF Verified, Cand, WordInv
<1>7. Exit("applied") /\ UNCHANGED <<chain, faults, clean>>
  BY <1>6 DEF Verify, Pass
<1>8. /\ TypeInv' /\ StepInv' /\ HistoryInv' /\ phase' = "none" /\ step' = "applied"
      /\ UNCHANGED <<chain, moved>> /\ Cand' = Cand
  BY <1>2, <1>7, Exited DEF Steps
<1>9. 0 \in 0..Len(chain)
  BY <1>1
<1>10. NoneInv'
  BY <1>3, <1>5, <1>8, <1>9 DEF NoneInv
<1> QED BY <1>8, <1>10, OnePhase

(* stage_old goes on to take the candidate away. *)
LEMMA VerifyStage ==
    ASSUME ChainInv, Verify, phase = "stage_old"
    PROVE  ChainInv'
<1> DEFINE f == Shifted(saved, Count)
<1>1. /\ chain \in Seq(Rules) /\ before \in Seq(Rules) /\ Cand \in Seq(Rules) /\ Count = Len(Cand)
      /\ Count \in Nat /\ Positioned(saved) /\ queue = <<>> /\ queue \in Seq(Commands)
  BY InvFacts DEF Verify
<1>2. Topped(chain, 0, Cand) /\ Topped(before, 0, Cand)
  BY DEF ChainInv, StageInv
<1>3. /\ \/ \E d \in 0..Len(queue) : Deleting(chain, queue, Count, d) /\ Followed(queue, d, InsertPositions(f))
         \/ Filling(chain, queue, f, Count)
  BY DEF ChainInv, StageInv
<1>4. Positioned(f)
  BY <1>1, ShiftedFacts, Zenon
<1> HIDE DEF f
<1>5. Filling(chain, queue, f, Count)
  <2>1. \A d \in 0..Len(queue) : d = 0
    BY <1>1
  <2> QED BY <1>1, <1>3, <1>4, <2>1, DeletingDone
<1>6. Obsolete(chain, Count) = f
  BY <1>1, <1>4, <1>5, FillingEnd
<1>7. SubSeq(chain, 1, Count) = SubSeq(before, 1, Count)
  BY <1>1, <1>2, ToppedSame
<1>8. Verified
  BY <1>6, <1>7 DEF Verified, f
<1>9. /\ phase' = "drop_candidate" /\ queue' = DeleteTop(Count)
      /\ UNCHANGED <<chain, faults, kind, old, new, step, saved, before, original, foreign,
                     clean, moved>>
  BY <1>8 DEF Verify, Pass
<1>10. queue' \in Seq(Commands)
  BY <1>1, <1>9, DeleteTopFacts
<1>11. TypeInv'
  BY <1>9, <1>10 DEF ChainInv, TypeInv, Phases
<1>12. Cand' = Cand /\ Count' = Count /\ (Staged' <=> Staged)
  BY <1>9 DEF Cand, Count, Staged
<1>13. StepInv'
  BY <1>9, <1>12 DEF ChainInv, StepInv
<1>14. HistoryInv'
  BY <1>9 DEF ChainInv, HistoryInv
<1>15. Stacked(chain, Count, Cand, <<>>) /\ Count \in 0..Count
  BY <1>1, <1>2, ToppedForms
<1>16. /\ queue' = DeleteTop(Count) /\ Stacked(chain', Count, Cand', <<>>) /\ Count \in 0..Count'
       /\ Obsolete(chain', Count) = Shifted(saved', Count)
  BY <1>6, <1>9, <1>12, <1>15 DEF f
<1>17. DropInv'
  BY <1>16 DEF DropInv
<1> QED BY <1>9, <1>11, <1>13, <1>14, <1>17, OnePhase

(* drop_candidate has left the rules of the snapshot at their places. *)
LEMMA VerifyDrop ==
    ASSUME ChainInv, Verify, phase = "drop_candidate"
    PROVE  ChainInv'
<1>1. chain \in Seq(Rules) /\ Count \in Nat /\ Positioned(saved) /\ queue = <<>>
  BY InvFacts DEF Verify
<1>2. step # "idle" /\ faults \in 0..MaxFaults /\ clean \in BOOLEAN
  BY DEF ChainInv, StepInv, TypeInv
<1>3. PICK k \in 0..Count : queue = DeleteTop(k) /\ Obsolete(chain, k) = Shifted(saved, k)
  BY DEF ChainInv, DropInv
<1>4. k = 0
  <2>1. k \in Nat
    BY <1>1
  <2> QED BY <1>1, <1>3, <2>1, DeleteTopFacts
<1>5. Shifted(saved, 0) = saved
  <2>1. 0 \in Nat
    OBVIOUS
  <2> QED BY <1>1, <2>1, ShiftedFacts, Zenon
<1>6. ManagedPositions(chain) = saved
  BY <1>1, <1>3, <1>4, <1>5, ObsoleteAll
<1>7. Verified
  BY <1>6 DEF Verified
<1>8. Exit("restored") /\ UNCHANGED <<chain, faults, clean>>
  BY <1>7 DEF Verify, Pass
<1>9. /\ TypeInv' /\ StepInv' /\ HistoryInv' /\ phase' = "none" /\ step' = "restored"
      /\ UNCHANGED <<chain, old, saved>> /\ (Protected' <=> Protected)
  BY <1>2, <1>8, Exited DEF Steps
<1>10. Protected => Closed(chain, old.port)
  BY ServedClosed
<1>11. NoneInv'
  BY <1>6, <1>9, <1>10 DEF NoneInv
<1> QED BY <1>9, <1>11, OnePhase

(* apply has left the candidate and nothing else of the profile. *)
LEMMA VerifyApply ==
    ASSUME ChainInv, Verify, phase = "apply"
    PROVE  ChainInv'
<1>1. /\ chain \in Seq(Rules) /\ Cand \in Seq(Rules) /\ queue = <<>> /\ queue \in Seq(Commands)
  BY InvFacts DEF Verify
<1>2. step # "idle" /\ ~Staged /\ faults \in 0..MaxFaults /\ clean \in BOOLEAN
  BY DEF ChainInv, StepInv, TypeInv
<1>3. \/ Clearing(chain, queue) /\ Followed(queue, Len(Managed(chain)), InsertOnTop(Cand))
      \/ Stacking(chain, queue, Cand)
  BY DEF ChainInv, ApplyInv
<1>4. Stacking(chain, queue, Cand)
  <2>1. ASSUME Clearing(chain, queue) PROVE Len(Managed(chain)) = 0
    <3>1. Len(Managed(chain)) <= Len(queue) /\ Len(queue) = 0
      BY <1>1, <2>1 DEF Clearing
    <3>2. Len(Managed(chain)) \in Nat
      BY <1>1, ClearManagedFacts
    <3> QED BY <3>1, <3>2
  <2> QED BY <1>1, <1>3, <2>1, StackingStart
<1>5. Managed(chain) = Cand
  BY <1>1, <1>4, StackingEnd
<1>6. Verified
  BY <1>5 DEF Verified, Cand
<1>7. Exit("applied") /\ UNCHANGED <<chain, faults, clean>>
  BY <1>6 DEF Verify, Pass
<1>8. /\ TypeInv' /\ StepInv' /\ HistoryInv' /\ phase' = "none" /\ step' = "applied"
      /\ UNCHANGED chain /\ Cand' = Cand /\ ~Staged'
  BY <1>2, <1>7, Exited DEF Steps
<1>9. NoneInv'
  BY <1>5, <1>8 DEF NoneInv, Protected
<1> QED BY <1>8, <1>9, OnePhase

(* restore has left the rules of the snapshot at their places. *)
LEMMA VerifyRestore ==
    ASSUME ChainInv, Verify, phase = "restore"
    PROVE  ChainInv'
<1>1. /\ chain \in Seq(Rules) /\ Positioned(saved) /\ queue = <<>> /\ queue \in Seq(Commands)
      /\ 0 \in Nat
  BY InvFacts DEF Verify
<1>2. step # "idle" /\ ~Staged /\ faults \in 0..MaxFaults /\ clean \in BOOLEAN
  BY DEF ChainInv, StepInv, TypeInv
<1>3. \/ Clearing(chain, queue) /\ Followed(queue, Len(Managed(chain)), InsertPositions(saved))
      \/ Filling(chain, queue, saved, 0)
  BY DEF ChainInv, RestoreInv
<1>4. Filling(chain, queue, saved, 0)
  <2>1. CASE Clearing(chain, queue) /\ Followed(queue, Len(Managed(chain)), InsertPositions(saved))
    <3>1. Len(Managed(chain)) <= Len(queue) /\ Len(queue) = 0
      BY <1>1, <2>1 DEF Clearing
    <3>2. Len(Managed(chain)) \in Nat
      BY <1>1, ClearManagedFacts
    <3>3. Len(Managed(chain)) = 0
      BY <3>1, <3>2
    <3>4. \A i \in Own(chain) : ~ (i > 0)
      BY <1>1, <3>3, ClearingEnd
    <3> QED BY <1>1, <2>1, <3>3, <3>4, FillingStart
  <2> QED BY <1>3, <2>1
<1>5. ManagedPositions(chain) = saved
  BY <1>1, <1>4, FillingEnd, ObsoleteAll
<1>6. Verified
  BY <1>5 DEF Verified
<1>7. Exit("restored") /\ UNCHANGED <<chain, faults, clean>>
  BY <1>6 DEF Verify, Pass
<1>8. /\ TypeInv' /\ StepInv' /\ HistoryInv' /\ phase' = "none" /\ step' = "restored"
      /\ UNCHANGED <<chain, saved>> /\ ~Staged'
  BY <1>2, <1>7, Exited DEF Steps
<1>9. NoneInv'
  BY <1>5, <1>8 DEF NoneInv, Protected
<1> QED BY <1>8, <1>9, OnePhase

(* The check after the last command, in each phase. *)
LEMMA VerifyInv ==
    ASSUME ChainInv, WordInv, Verify
    PROVE  ChainInv'
<1>1. phase # "none" /\ phase \in Phases /\ faults \in 0..MaxFaults
  BY DEF Verify, ChainInv, TypeInv
<1>2. CASE phase \in {"put_back", "put_back_restore"}
  <2>1. ~clean /\ step # "idle" /\ ~Staged
    BY <1>2 DEF ChainInv, StepInv, PutBackInv
  <2>2. Verified
    BY <1>2 DEF Verified
  <2>3. /\ UNCHANGED <<chain, faults, clean>>
        /\ \E outcome \in {"failed", "unproven"} : Exit(outcome)
    BY <1>2, <2>2 DEF Verify, Pass
  <2>4. chain' = chain /\ faults' \in 0..MaxFaults /\ clean' = FALSE
    <3>1. clean \in BOOLEAN
      BY DEF ChainInv, TypeInv
    <3> QED BY <1>1, <2>1, <2>3, <3>1
  <2> QED BY <2>1, <2>3, <2>4, GivesUp
<1> QED BY <1>1, <1>2, VerifyPrepare, VerifyUndo, VerifyFinalize, VerifyStage, VerifyDrop,
           VerifyApply, VerifyRestore DEF Phases

(* A rule another program appends is below everything of the manager's. *)
LEMMA AppendInv ==
    ASSUME ChainInv, NEW rule \in Rules, ~IsManaged(rule), chain' = Append(chain, rule),
           foreign' = Append(foreign, rule), clean' = FALSE, UNCHANGED moved,
           UNCHANGED <<kind, old, new, step, saved, phase, queue, before, original, faults>>
    PROVE  ChainInv'
<1>1. /\ chain \in Seq(Rules) /\ before \in Seq(Rules) /\ original \in Seq(Rules)
      /\ Cand \in Seq(Rules) /\ Count = Len(Cand) /\ Count \in Nat /\ Len(chain) \in Nat
      /\ foreign = Others(chain)
  BY InvFacts
<1>2. Inserted(chain, Len(chain) + 1, rule, chain')
  BY <1>1, ForeignInserts
<1>3. /\ chain' \in Seq(Rules) /\ Len(chain') = Len(chain) + 1
      /\ \A i \in 1..Len(chain) : chain'[i] = chain[i]
      /\ Own(chain') = Own(chain) /\ ManagedPositions(chain') = ManagedPositions(chain)
      /\ \A n : Obsolete(chain', n) = Obsolete(chain, n)
      /\ Managed(chain') = Managed(chain)
      /\ \A o \in Seq(Rules) : Extends(o, chain) => Extends(o, chain')
  <2>1. /\ chain' \in Seq(Rules) /\ Len(chain') = Len(chain) + 1
        /\ \A i \in 1..Len(chain) : chain'[i] = chain[i]
        /\ Own(chain') = Own(chain) /\ ManagedPositions(chain') = ManagedPositions(chain)
        /\ Managed(chain') = Managed(chain)
    BY <1>1, <1>2, AppendSame
  <2>2. \A n : Obsolete(chain', n) = Obsolete(chain, n)
    <3>1. \A i \in Own(chain) : chain'[i] = chain[i]
      BY <1>1, <2>1 DEF Own
    <3> QED BY <2>1, <3>1 DEF Obsolete
  <2>3. \A o \in Seq(Rules) : Extends(o, chain) => Extends(o, chain')
    BY <1>1, <1>2, AppendSame
  <2> QED BY <2>1, <2>2, <2>3
<1>4. foreign' = Others(chain')
  BY <1>1, ForeignOthers
<1>5. foreign' \in Seq(Rules) /\ foreign \in Seq(Rules)
  BY DEF ChainInv, TypeInv
<1>6. TypeInv'
  BY <1>3, <1>5 DEF ChainInv, TypeInv
<1>7. Cand' = Cand /\ Count' = Count /\ (Staged' <=> Staged) /\ (Protected' <=> Protected)
  BY DEF Cand, Count, Staged, Protected
<1>8. StepInv'
  BY <1>7 DEF ChainInv, StepInv
<1>9. /\ Len(Others(original)) <= Len(foreign')
      /\ ~moved => IsPrefix(Others(original), foreign')
  <2>1. /\ Len(Others(original)) <= Len(foreign)
        /\ ~moved => IsPrefix(Others(original), foreign)
    BY DEF ChainInv, HistoryInv
  <2>2. Others(original) \in Seq(Rules)
    BY <1>1, ManagedFacts
  <2>3. Len(foreign') = Len(foreign) + 1 /\ \A i \in 1..Len(foreign) : foreign'[i] = foreign[i]
    BY <1>5
  <2>4. Len(foreign) \in Nat /\ Len(Others(original)) \in Nat
    BY <1>5, <2>2
  <2>5. Len(Others(original)) <= Len(foreign')
    BY <2>1, <2>3, <2>4
  <2>6. ASSUME ~moved PROVE IsPrefix(Others(original), foreign')
    <3>1. \A i \in 1..Len(Others(original)) : foreign[i] = Others(original)[i]
      BY <1>5, <2>1, <2>2, <2>6, PrefixIndex
    <3>2. \A i \in 1..Len(Others(original)) : i \in 1..Len(foreign)
      BY <2>1, <2>4
    <3> QED BY <1>5, <2>2, <2>3, <2>5, <3>1, <3>2, PrefixIndex
  <2> QED BY <2>5, <2>6
<1>10. HistoryInv'
  BY <1>4, <1>9 DEF ChainInv, HistoryInv
<1>11. ASSUME NEW m \in Nat, Topped(chain, m, Cand) PROVE Topped(chain', m, Cand)
  <2>1. m + Len(Cand) <= Len(chain)
    BY <1>11 DEF Topped
  <2>2. Len(chain) + 1 > m + Len(Cand)
    BY <1>1, <2>1
  <2> QED BY <1>1, <1>2, <1>11, <2>2, ToppedBelow
<1>12. ASSUME NEW p, Closed(chain, p) PROVE Closed(chain', p)
  <2>1. ~Opens(rule, p)
    BY DEF Opens, IsManaged
  <2> QED BY <1>2, <1>12, <2>1, ClosedInserted
<1>13. ASSUME NEW k, NEW b \in Seq(Rules), Stacked(chain, k, Cand, b) PROVE Stacked(chain', k, Cand, b)
  BY <1>1, <1>3, <1>13, StackedAppend
<1>14. ASSUME phase = "none" PROVE NoneInv'
  <2>1. (step \in {"idle", "begun", "refused"} /\ ~moved) => Extends(original, chain')
    BY <1>1, <1>3, <1>14 DEF ChainInv, NoneInv
  <2>2. ASSUME step \in {"staged", "failed", "applied"}, Staged
        PROVE  \E m \in 0..Len(chain') : Topped(chain', m, Cand) /\ (~moved => m = 0)
    <3>1. PICK m \in 0..Len(chain) : Topped(chain, m, Cand) /\ (~moved => m = 0)
      BY <1>14, <2>2 DEF ChainInv, NoneInv
    <3>2. m \in Nat /\ m \in 0..Len(chain')
      BY <1>1, <1>3
    <3> QED BY <1>11, <3>1, <3>2
  <2>3. step = "applied" => Managed(chain') = Cand
    BY <1>3, <1>14 DEF ChainInv, NoneInv
  <2>4. (step = "restored" /\ ~moved) => ManagedPositions(chain') = saved
    BY <1>3, <1>14 DEF ChainInv, NoneInv
  <2>5. (Protected /\ step \notin {"failed", "applied"} /\ (step = "unproven" => old.port = new.port))
           => Closed(chain', old.port)
    BY <1>12, <1>14 DEF ChainInv, NoneInv
  <2> QED BY <1>7, <2>1, <2>2, <2>3, <2>4, <2>5 DEF NoneInv
<1>15. ASSUME phase \in {"prepare", "undo_prepare"} PROVE PrepareInv'
  <2>1. PICK k \in 0..Count :
           /\ Stacked(chain, k, Cand, before)
           /\ phase = "prepare" => Followed(InsertOnTop(Cand), k, queue)
           /\ phase = "undo_prepare" => queue = DeleteTop(k)
    BY <1>15 DEF ChainInv, PrepareInv
  <2>2. /\ ~moved => Extends(original, before)
        /\ Protected => Closed(before, old.port)
    BY <1>15 DEF ChainInv, PrepareInv
  <2>3. Stacked(chain', k, Cand, before)
    BY <1>1, <1>13, <2>1
  <2> QED BY <1>7, <2>1, <2>2, <2>3 DEF PrepareInv
<1>16. ASSUME phase \in {"finalize", "stage_old"} PROVE Topped(chain', 0, Cand)
  <2>1. Topped(chain, 0, Cand) /\ 0 \in Nat
    BY <1>16 DEF ChainInv, FinalizeInv, StageInv
  <2> QED BY <1>11, <2>1
<1>17. \A d : Deleting(chain, queue, Count, d) => Deleting(chain', queue, Count, d)
  BY <1>3 DEF Deleting
<1>18. \A f, n : Filling(chain, queue, f, n) => Filling(chain', queue, f, n)
  BY <1>3 DEF Filling
<1>19. ASSUME phase = "finalize" PROVE FinalizeInv'
  BY <1>7, <1>16, <1>17, <1>19 DEF ChainInv, FinalizeInv
<1>20. ASSUME phase = "stage_old" PROVE StageInv'
  <2>1. Topped(before, 0, Cand)
    BY <1>20 DEF ChainInv, StageInv
  <2>2. \/ \E d \in 0..Len(queue) :
                  /\ Deleting(chain', queue, Count, d)
                  /\ Followed(queue, d, InsertPositions(Shifted(saved, Count)))
        \/ Filling(chain', queue, Shifted(saved, Count), Count)
    BY <1>17, <1>18, <1>20 DEF ChainInv, StageInv
  <2> QED BY <1>7, <1>16, <1>20, <2>1, <2>2 DEF StageInv
<1>21. ASSUME phase = "drop_candidate" PROVE DropInv'
  <2>1. PICK k \in 0..Count : queue = DeleteTop(k) /\ Stacked(chain, k, Cand, <<>>)
                                /\ Obsolete(chain, k) = Shifted(saved, k)
    BY <1>21 DEF ChainInv, DropInv
  <2>2. <<>> \in Seq(Rules)
    OBVIOUS
  <2>3. Stacked(chain', k, Cand, <<>>) /\ Obsolete(chain', k) = Shifted(saved, k)
    BY <1>3, <1>13, <2>1, <2>2
  <2> QED BY <1>7, <2>1, <2>3 DEF DropInv
<1>22. Clearing(chain, queue) => Clearing(chain', queue)
  BY <1>3 DEF Clearing
<1>23. Stacking(chain, queue, Cand) => Stacking(chain', queue, Cand)
  BY <1>3 DEF Stacking
<1>24. ASSUME phase = "apply" PROVE ApplyInv'
  BY <1>3, <1>7, <1>22, <1>23, <1>24 DEF ChainInv, ApplyInv
<1>25. ASSUME phase = "restore" PROVE RestoreInv'
  BY <1>3, <1>18, <1>22, <1>25 DEF ChainInv, RestoreInv
<1>26. ASSUME phase \in {"put_back", "put_back_restore"} PROVE PutBackInv'
  BY <1>26 DEF ChainInv, PutBackInv
<1> QED BY <1>6, <1>8, <1>10, <1>14, <1>15, <1>19, <1>20, <1>21, <1>24, <1>25, <1>26, OnePhase

(* A rule inserted at the head between two processes is remembered. *)
LEMMA HeadInv ==
    ASSUME ChainInv, NEW rule \in Rules, ~IsManaged(rule), phase = "none", chain' = <<rule>> \o chain,
           foreign' = <<rule>> \o foreign, moved' = TRUE, UNCHANGED clean,
           UNCHANGED <<kind, old, new, step, saved, phase, queue, before, original, faults>>
    PROVE  ChainInv'
<1>1. /\ chain \in Seq(Rules) /\ Cand \in Seq(Rules) /\ Len(chain) \in Nat
      /\ foreign = Others(chain)
  BY InvFacts
<1>2. Inserted(chain, 1, rule, chain')
  BY <1>1, ForeignInserts
<1>3. chain' \in Seq(Rules) /\ Len(chain') = Len(chain) + 1
  BY <1>2 DEF Inserted
<1>4. Managed(chain') = Managed(chain)
  BY <1>2, OneKindMoves
<1>5. foreign' = Others(chain')
  BY <1>1, ForeignOthers
<1>6. foreign \in Seq(Rules)
  BY DEF ChainInv, TypeInv
<1>7. foreign' \in Seq(Rules) /\ Len(foreign') = Len(foreign) + 1
  <2>1. <<rule>> \in Seq(Rules) /\ Len(<<rule>>) = 1
    OBVIOUS
  <2>2. foreign' \in Seq(Rules) /\ Len(foreign') = 1 + Len(foreign)
    BY <1>6, <2>1, ConcatProperties
  <2> QED BY <1>6, <2>2
<1>8. TypeInv'
  BY <1>3, <1>7 DEF ChainInv, TypeInv
<1>9. Cand' = Cand /\ (Staged' <=> Staged) /\ (Protected' <=> Protected)
  BY DEF Cand, Staged, Protected
<1>10. StepInv'
  BY <1>9 DEF ChainInv, StepInv
<1>11. Len(Others(original)) <= Len(foreign')
  <2>1. Len(Others(original)) <= Len(foreign) /\ Others(original) \in Seq(Rules)
    BY InvFacts, ManagedFacts DEF ChainInv, HistoryInv
  <2>2. Len(foreign) \in Nat /\ Len(Others(original)) \in Nat
    BY <1>6, <2>1
  <2> QED BY <1>7, <2>1, <2>2
<1>12. HistoryInv'
  BY <1>5, <1>11 DEF ChainInv, HistoryInv
<1>13. ASSUME step \in {"staged", "failed", "applied"}, Staged
       PROVE  \E m \in 0..Len(chain') : Topped(chain', m, Cand)
  <2>1. PICK m \in 0..Len(chain) : Topped(chain, m, Cand)
    BY <1>13 DEF ChainInv, NoneInv
  <2>2. m \in Nat /\ m + 1 \in 0..Len(chain')
    BY <1>1, <1>3
  <2>3. Topped(chain', m + 1, Cand)
    BY <1>1, <1>2, <2>1, <2>2, ToppedAbove
  <2> QED BY <2>2, <2>3
<1>14. (Protected /\ step \notin {"failed", "applied"} /\ (step = "unproven" => old.port = new.port))
          => Closed(chain', old.port)
  <2>1. ~Opens(rule, old.port)
    BY DEF Opens, IsManaged
  <2>2. (Protected /\ step \notin {"failed", "applied"} /\ (step = "unproven" => old.port = new.port))
          => Closed(chain, old.port)
    BY DEF ChainInv, NoneInv
  <2> QED BY <1>2, <2>1, <2>2, ClosedInserted
<1>15. step = "applied" => Managed(chain') = Cand
  BY <1>4 DEF ChainInv, NoneInv
<1>16. NoneInv'
  BY <1>9, <1>13, <1>14, <1>15 DEF NoneInv
<1> QED BY <1>8, <1>10, <1>12, <1>16, OnePhase

(* Other programs. *)
LEMMA ForeignInv ==
    ASSUME ChainInv, Foreign
    PROVE  ChainInv'
<1> DEFINE rule == Other(Len(foreign) + 1)
<1>1. foreign \in Seq(Rules)
  BY DEF ChainInv, TypeInv
<1>2. rule \in Rules /\ ~IsManaged(rule)
  <2>1. Len(foreign) + 1 \in Nat
    BY <1>1
  <2>2. rule \in [tag : {"other"}, src : {"any"}, port : Nat]
    BY <2>1 DEF Other
  <2>3. rule.tag = "other"
    BY DEF Other
  <2> QED BY <2>2, <2>3 DEF Rules, IsManaged
<1>3. /\ \/ /\ chain' = Append(chain, rule) /\ foreign' = Append(foreign, rule)
            /\ clean' = FALSE /\ UNCHANGED moved
         \/ /\ phase = "none"
            /\ chain' = <<rule>> \o chain /\ foreign' = <<rule>> \o foreign
            /\ moved' = TRUE /\ UNCHANGED clean
      /\ UNCHANGED <<kind, old, new, step, saved, phase, queue, before, original, faults>>
  BY DEF Foreign
<1> QED BY <1>2, <1>3, AppendInv, HeadInv

(* Every step of the manager and of other programs keeps the invariant. *)
LEMMA NextInv ==
    ASSUME ChainInv, WordInv, [Next]_vars
    PROVE  ChainInv'
<1>1. CASE Next
  BY <1>1, BeginInv, StartPrepareInv, StartFinalizeInv, StartRollbackInv, StartMutateInv,
     StartRestoreInv, ExecuteInv, FailInv, VerifyInv, ForeignInv DEF Next
<1>2. CASE UNCHANGED vars
  <2>1. UNCHANGED <<chain, kind, old, new, step, saved, phase, queue, before, original,
                    foreign, faults, clean, moved>>
    BY <1>2 DEF vars
  <2>2. Cand' = Cand /\ Count' = Count /\ (Staged' <=> Staged) /\ (Protected' <=> Protected)
    BY <2>1 DEF Cand, Count, Staged, Protected
  <2>3. TypeInv' /\ StepInv' /\ HistoryInv'
    BY <2>1, <2>2 DEF ChainInv, TypeInv, StepInv, HistoryInv
  <2>4. NoneInv' /\ PrepareInv' /\ FinalizeInv' /\ StageInv'
    BY <2>1, <2>2 DEF ChainInv, NoneInv, PrepareInv, FinalizeInv, StageInv
  <2>5. DropInv' /\ ApplyInv' /\ RestoreInv' /\ PutBackInv'
    BY <2>1, <2>2 DEF ChainInv, DropInv, ApplyInv, RestoreInv, PutBackInv
  <2> QED BY <2>3, <2>4, <2>5 DEF ChainInv
<1> QED BY <1>1, <1>2

(* What is known of the candidate's wording depends on the profile only. *)
LEMMA SameWords ==
    ASSUME WordInv, UNCHANGED <<new, verbatim>>
    PROVE  /\ verbatim' \in BOOLEAN
           /\ Recognised' <=> Recognised
  BY DEF WordInv, Recognised, CandidateRules

(* prepare lets no candidate through that finalize would not know again. *)
LEMMA WordsKept ==
    ASSUME WordInv, [Next]_vars
    PROVE  WordInv'
<1>1. ASSUME UNCHANGED <<new, verbatim>>, step' = "staged" => (step = "staged" \/ Recognised),
             phase' = "finalize" => (phase = "finalize" \/ Recognised)
      PROVE  WordInv'
  BY <1>1, SameWords, Zenon DEF WordInv
<1>2. ASSUME NEW outcome, outcome = "staged" => Recognised, Exit(outcome) PROVE WordInv'
  BY <1>1, <1>2 DEF Exit
<1>3. ASSUME NEW ph, NEW q, ph = "finalize" => Recognised, Launch(ph, q) PROVE WordInv'
  BY <1>1, <1>3 DEF Launch
<1>4. ASSUME Raise PROVE WordInv'
  <2>1. CASE phase = "prepare"
    BY <1>1, <1>4, <2>1 DEF Raise
  <2>2. CASE phase \in {"apply", "restore"}
    BY <1>1, <1>4, <2>2 DEF Raise
  <2>3. CASE phase \notin {"prepare", "apply", "restore"}
    BY <1>2, <1>4, <2>3 DEF Raise
  <2> QED BY <2>1, <2>2, <2>3
<1>5. ASSUME NEW k, NEW c \in Configs, Begin(k, c) PROVE WordInv'
  <2>1. verbatim' = verbatim /\ step' = "begun" /\ phase' = "none"
    BY <1>5 DEF Begin
  <2>2. verbatim' \in BOOLEAN
    BY <2>1 DEF WordInv
  <2> QED BY <2>1, <2>2 DEF WordInv
<1>6. ASSUME StartPrepare \/ StartMutate \/ StartRestore PROVE WordInv'
  BY <1>3, <1>6 DEF StartPrepare, StartMutate, StartRestore
<1>7. ASSUME StartFinalize PROVE WordInv'
  BY <1>2, <1>3, <1>7 DEF StartFinalize
<1>8. ASSUME StartRollback PROVE WordInv'
  BY <1>2, <1>3, <1>8 DEF StartRollback
<1>9. ASSUME Execute PROVE WordInv'
  <2>1. Raise \/ UNCHANGED <<new, verbatim, step, phase>>
    BY <1>9 DEF Execute
  <2> QED BY <1>1, <1>4, <2>1
<1>10. ASSUME Fail PROVE WordInv'
  BY <1>4, <1>10 DEF Fail
<1>11. ASSUME Verify PROVE WordInv'
  <2>1. CASE ~Verified
    BY <1>4, <1>11, <2>1 DEF Verify
  <2>2. CASE Verified /\ phase = "prepare"
    <3>1. Recognised /\ Exit("staged")
      BY <1>11, <2>2 DEF Verify, Verified, Pass
    <3> QED BY <1>2, <3>1
  <2>3. CASE Verified /\ phase = "stage_old"
    BY <1>1, <1>11, <2>3 DEF Verify, Pass
  <2>4. CASE Verified /\ phase \notin {"prepare", "stage_old"}
    <3>1. \E outcome \in {"refused", "applied", "restored", "failed", "unproven"} : Exit(outcome)
      BY <1>11, <2>4 DEF Verify, Pass
    <3> QED BY <1>2, <3>1
  <2> QED BY <2>1, <2>2, <2>3, <2>4
<1>12. ASSUME Foreign PROVE WordInv'
  BY <1>1, <1>12 DEF Foreign
<1>13. ASSUME UNCHANGED vars PROVE WordInv'
  BY <1>1, <1>13 DEF vars
<1> QED BY <1>5, <1>6, <1>7, <1>8, <1>9, <1>10, <1>11, <1>12, <1>13 DEF Next

(* What passed prepare is known again to finalize, whatever words iptables *)
(* prints rules in.                                                        *)
THEOREM WordsInvariant == Spec => []WordInv
<1>1. Init => WordInv
  BY DEF Init, WordInv
<1>2. WordInv /\ [Next]_vars => WordInv'
  BY WordsKept
<1> QED BY <1>1, <1>2, PTL DEF Spec

(* What the chain, the queue of commands and the reports have in common in *)
(* every phase holds at every instant.                                     *)
THEOREM ChainInvariant == Spec => []ChainInv
<1>1. Init => ChainInv
  BY InitInv
<1>2. ChainInv /\ WordInv /\ [Next]_vars => ChainInv'
  BY NextInv
<1> QED BY <1>1, <1>2, WordsInvariant, PTL DEF Spec

(* On a chain that only prepare changed, its own comparison fails only     *)
(* because the candidate reads differently.                                *)
LEMMA PrepareVerified ==
    ASSUME ChainInv, phase = "prepare", queue = <<>>, clean, Recognised
    PROVE  Verified
<1>1. /\ chain \in Seq(Rules) /\ before \in Seq(Rules) /\ Cand \in Seq(Rules)
      /\ Count = Len(Cand) /\ Count \in Nat
  BY InvFacts
<1>2. PICK k \in 0..Count :
         /\ Stacked(chain, k, Cand, before)
         /\ Len(chain) = k + Len(before)
         /\ Followed(InsertOnTop(Cand), k, queue)
  BY DEF ChainInv, PrepareInv
<1>3. k = Count
  <2>1. Len(InsertOnTop(Cand)) = Count /\ Len(queue) = 0 /\ k \in Nat
    BY <1>1, InsertOnTopFacts
  <2> QED BY <1>1, <1>2, <2>1 DEF Followed
<1>4. Len(before) \in Nat /\ Len(chain) = Count + Len(before)
  BY <1>1, <1>2, <1>3
<1>5. \A i \in 1..Count : chain[i] = Cand[i]
  <2>1. \A i \in 1..Count : Len(Cand) - Count + i = i
    BY <1>1
  <2> QED BY <1>2, <1>3, <2>1 DEF Stacked
<1>6. \A i \in 1..Len(before) : chain[Count + i] = before[i]
  BY <1>2, <1>3 DEF Stacked
<1>7. /\ Cand \o before \in Seq(Rules) /\ Len(Cand \o before) = Count + Len(before)
      /\ \A i \in 1..Count + Len(before) :
            (Cand \o before)[i] = IF i <= Count THEN Cand[i] ELSE before[i - Count]
  BY <1>1, ConcatProperties
<1>8. \A i \in 1..Len(chain) : chain[i] = (Cand \o before)[i]
  <2>1. SUFFICES ASSUME NEW i \in 1..Len(chain) PROVE chain[i] = (Cand \o before)[i]
    OBVIOUS
  <2>2. i \in 1..Count + Len(before)
    BY <1>4
  <2>3. CASE i <= Count
    <3>1. i \in 1..Count
      BY <1>1, <2>2, <2>3
    <3> QED BY <1>5, <1>7, <2>2, <2>3, <3>1
  <2>4. CASE ~(i <= Count)
    <3>1. i - Count \in 1..Len(before) /\ Count + (i - Count) = i
      BY <1>1, <1>4, <2>2, <2>4
    <3> QED BY <1>6, <1>7, <2>2, <2>4, <3>1
  <2> QED BY <2>3, <2>4
<1>9. chain = Cand \o before
  BY <1>1, <1>4, <1>7, <1>8, SeqEqual
<1> QED BY <1>9 DEF Verified, Cand

(* prepare goes back after a failure, after a change of the chain under    *)
(* it, or because the rules it reads are not in the words it wrote.        *)
LEMMA RefusalKept ==
    ASSUME ChainInv, RefusalInv, [Next]_vars
    PROVE  RefusalInv'
<1>1. faults \in Nat /\ clean \in BOOLEAN
  BY FirewallAssumption DEF ChainInv, TypeInv
<1>2. ASSUME NEW outcome, outcome # "refused", Exit(outcome) PROVE RefusalInv'
  BY <1>2 DEF Exit, RefusalInv
<1>3. ASSUME NEW ph \in Phases \ {"none", "undo_prepare"}, NEW q, Launch(ph, q) PROVE RefusalInv'
  BY <1>3 DEF Launch, RefusalInv
<1>4. ASSUME Raise, phase # "prepare" PROVE RefusalInv'
  <2>1. CASE phase \in {"apply", "restore"}
    BY <1>4, <2>1 DEF Raise, RefusalInv
  <2>2. CASE phase \notin {"apply", "restore"}
    BY <1>2, <1>4, <2>2 DEF Raise
  <2> QED BY <2>1, <2>2
<1>5. ASSUME UNCHANGED <<phase, step, faults, clean, verbatim>> PROVE RefusalInv'
  BY <1>5 DEF RefusalInv, Reason
<1>6. ASSUME NEW k, NEW c \in Configs, Begin(k, c) PROVE RefusalInv'
  BY <1>6 DEF Begin, RefusalInv
<1>7. ASSUME StartPrepare \/ StartMutate \/ StartRestore PROVE RefusalInv'
  BY <1>3, <1>7 DEF StartPrepare, StartMutate, StartRestore, Phases
<1>8. ASSUME StartFinalize PROVE RefusalInv'
  BY <1>2, <1>3, <1>8 DEF StartFinalize, Phases
<1>9. ASSUME StartRollback PROVE RefusalInv'
  BY <1>2, <1>3, <1>9 DEF StartRollback, Phases
<1>10. ASSUME Execute PROVE RefusalInv'
  <2>1. CASE phase = "prepare"
    BY <1>10, <2>1, ExecutePrepare DEF RefusalInv
  <2>2. CASE phase # "prepare"
    <3>1. Raise \/ UNCHANGED <<phase, step, faults, clean, verbatim>>
      BY <1>10 DEF Execute
    <3> QED BY <1>4, <1>5, <2>2, <3>1
  <2> QED BY <2>1, <2>2
<1>11. ASSUME Fail PROVE RefusalInv'
  <2>1. Raise /\ faults' = faults + 1
    BY <1>11 DEF Fail
  <2>2. Reason'
    BY <1>1, <2>1 DEF Reason
  <2> QED BY <2>2 DEF RefusalInv
<1>12. ASSUME Verify PROVE RefusalInv'
  <2>1. CASE ~Verified /\ phase = "prepare"
    <3>1. queue = <<>> /\ Raise /\ UNCHANGED <<faults, clean>>
      BY <1>12, <2>1 DEF Verify
    <3>2. verbatim' = verbatim
      BY <2>1, <3>1 DEF Raise
    <3>3. ~clean \/ ~Recognised
      BY <2>1, <3>1, PrepareVerified
    <3>4. ~clean \/ ~verbatim
      BY <3>3 DEF Recognised
    <3> QED BY <3>1, <3>2, <3>4 DEF RefusalInv, Reason
  <2>2. CASE ~Verified /\ phase # "prepare"
    BY <1>4, <1>12, <2>2 DEF Verify
  <2>3. CASE Verified /\ phase = "undo_prepare"
    <3>1. Exit("refused") /\ UNCHANGED <<faults, clean>>
      BY <1>12, <2>3 DEF Verify, Pass
    <3>2. verbatim' = verbatim
      BY <3>1 DEF Exit
    <3> QED BY <2>3, <3>1, <3>2 DEF RefusalInv, Reason
  <2>4. CASE Verified /\ phase = "stage_old"
    BY <1>12, <2>4 DEF Verify, Pass, RefusalInv
  <2>5. CASE Verified /\ phase \notin {"undo_prepare", "stage_old"}
    <3>1. \E outcome \in {"staged", "applied", "restored", "failed", "unproven"} : Exit(outcome)
      BY <1>12, <2>5 DEF Verify, Pass
    <3> QED BY <1>2, <3>1
  <2> QED BY <2>1, <2>2, <2>3, <2>4, <2>5
<1>13. ASSUME Foreign PROVE RefusalInv'
  <2>1. \/ clean' = FALSE
        \/ UNCHANGED <<phase, step, faults, clean, verbatim>>
    BY <1>13 DEF Foreign
  <2>2. CASE clean' = FALSE
    BY <2>2 DEF RefusalInv, Reason
  <2> QED BY <1>5, <2>1, <2>2
<1>14. ASSUME UNCHANGED vars PROVE RefusalInv'
  BY <1>5, <1>14 DEF vars
<1> QED BY <1>6, <1>7, <1>8, <1>9, <1>10, <1>11, <1>12, <1>13, <1>14 DEF Next

(* A staged edit that is refused had a reason to be, at every instant. *)
THEOREM RefusalInvariant == Spec => []RefusalInv
<1>1. Init => RefusalInv
  BY DEF Init, RefusalInv
<1>2. ChainInv /\ RefusalInv /\ [Next]_vars => RefusalInv'
  BY RefusalKept
<1> QED BY <1>1, <1>2, ChainInvariant, PTL DEF Spec
-----------------------------------------------------------------------------
(* The properties *)

(* Rules of other programs and of other profiles are neither deleted nor   *)
(* reordered by the insertions and deletions by position of transition_,   *)
(* mutate_ and restore_kharej_firewall_rules.                              *)
THEOREM RulesOfOthersKept == Spec => []ForeignKept
<1>1. ChainInv => ForeignKept
  BY DEF ChainInv, HistoryInv, ForeignKept
<1> QED BY <1>1, ChainInvariant, PTL

(* During an edit of a profile that is protected before and after, the     *)
(* port that is served drops a stranger at every instant, whichever        *)
(* command of transition_kharej_firewall_rules fails.                      *)
THEOREM ServedPortNeverOpen == Spec => []NeverOpen
<1>1. ASSUME ChainInv PROVE NeverOpen
  <2>1. chain \in Seq(Rules) /\ original \in Seq(Rules)
    BY <1>1, InvFacts
  <2>2. SUFFICES ASSUME Staged, old.enabled, ~Accepts(original, Stranger, old.port),
                        NEW p \in ServedPorts
                 PROVE  ~Accepts(chain, Stranger, p)
    BY DEF NeverOpen
  <2>3. Protected
    BY <2>1, <2>2, ClosedMeans DEF Protected
  <2>4. phase \in {"none", "prepare", "undo_prepare", "finalize", "stage_old", "drop_candidate"}
    BY <1>1, <2>2 DEF ChainInv, StepInv, TypeInv, Phases
  <2>5. CASE phase \in {"prepare", "undo_prepare", "drop_candidate"}
    <3>1. p = old.port
      BY <2>2, <2>5 DEF ServedPorts
    <3>2. Closed(chain, p)
      BY <1>1, <2>3, <2>5, <3>1, ServedClosed
    <3> QED BY <2>1, <3>2, ClosedMeans
  <2>6. CASE phase \in {"finalize", "stage_old"}
    <3>1. p = new.port
      BY <2>2, <2>6 DEF ServedPorts
    <3>2. Closed(chain, p)
      BY <1>1, <2>3, <2>6, <3>1, ServedClosed
    <3> QED BY <2>1, <3>2, ClosedMeans
  <2>7. CASE phase = "none"
    <3>1. step \in {"staged", "failed", "applied"} => Closed(chain, new.port)
      BY <1>1, <2>3, <2>7, ServedClosed
    <3>2. (step \notin {"failed", "applied"} /\ (step = "unproven" => old.port = new.port))
             => Closed(chain, old.port)
      BY <1>1, <2>3, <2>7 DEF ChainInv, NoneInv
    <3>3. step \in Steps
      BY <1>1 DEF ChainInv, TypeInv
    <3>4. CASE step \in {"idle", "begun", "refused", "restored"}
      <4>1. p = old.port
        BY <2>2, <2>7, <3>4 DEF ServedPorts
      <4> QED BY <2>1, <3>2, <3>4, <4>1, ClosedMeans
    <3>5. CASE step = "staged"
      <4>1. p \in {old.port, new.port}
        BY <2>2, <2>7, <3>5 DEF ServedPorts
      <4> QED BY <2>1, <3>1, <3>2, <3>5, <4>1, ClosedMeans
    <3>6. CASE step \in {"applied", "failed"}
      <4>1. p = new.port
        BY <2>2, <2>7, <3>6 DEF ServedPorts
      <4> QED BY <2>1, <3>1, <3>6, <4>1, ClosedMeans
    <3>7. CASE step = "unproven"
      <4>1. p = old.port /\ p = new.port
        BY <2>2, <2>7, <3>7 DEF ServedPorts
      <4> QED BY <2>1, <3>2, <3>7, <4>1, ClosedMeans
    <3> QED BY <3>3, <3>4, <3>5, <3>6, <3>7 DEF Steps
  <2> QED BY <2>4, <2>5, <2>6, <2>7
<1> QED BY <1>1, ChainInvariant, PTL

(* What a transaction reports is true of the chain: applied means exactly  *)
(* the profile's rules, restored or refused means every rule at its place, *)
(* and a failure is reported only if there was one, a refusal also if      *)
(* iptables prints the new rules in words of its own.                      *)
THEOREM ReportsExact == Spec => []ReportExact
<1>1. ASSUME ChainInv, WordInv, RefusalInv PROVE ReportExact
  <2>1. /\ chain \in Seq(Rules) /\ original \in Seq(Rules) /\ queue \in Seq(Commands)
        /\ new \in Configs /\ foreign = Others(chain)
    BY <1>1, InvFacts
  <2>2. /\ step = "idle" => saved = <<>>
        /\ step # "idle" => saved = ManagedPositions(original)
        /\ ~moved => IsPrefix(Others(original), foreign)
    BY <1>1 DEF ChainInv, HistoryInv
  <2>3. DOMAIN saved \subseteq DOMAIN original
    <3>1. CASE step = "idle"
      BY <2>2, <3>1
    <3>2. CASE step # "idle"
      <4>1. DOMAIN saved = Own(original)
        BY <2>1, <2>2, <3>2, PositionedFacts
      <4> QED BY <4>1 DEF Own
    <3> QED BY <3>1, <3>2
  <2>4. \A i \in DOMAIN queue : queue[i].op \in {"insert", "delete", "delete_rule"}
    <3>1. \A i \in DOMAIN queue : queue[i] \in Commands
      BY <2>1
    <3> QED BY <3>1 DEF Commands
  <2>5. TypeOK
    <3>1. verbatim \in BOOLEAN
      BY <1>1 DEF WordInv
    <3> QED BY <1>1, <2>3, <2>4, <3>1 DEF ChainInv, TypeInv, TypeOK
  <2>6. AppliedExact
    <3>1. SUFFICES ASSUME step = "applied", phase = "none"
                   PROVE  /\ Managed(chain) = CandidateRules(new)
                          /\ new.enabled =>
                                /\ ~Accepts(chain, Stranger, new.port)
                                /\ \A i \in DOMAIN new.sources : Accepts(chain, new.sources[i], new.port)
      BY DEF AppliedExact
    <3>2. Managed(chain) = CandidateRules(new)
      BY <1>1, <3>1 DEF ChainInv, NoneInv, Cand
    <3> QED BY <2>1, <3>2, AppliedAccepts
  <2>7. RestoredExact
    <3>1. SUFFICES ASSUME step \in {"refused", "restored"}, phase = "none", ~moved
                   PROVE  Extends(original, chain)
      BY <2>1, ExtendsRestored DEF RestoredExact
    <3>2. CASE step = "refused"
      BY <1>1, <3>1, <3>2 DEF ChainInv, NoneInv
    <3>3. CASE step = "restored"
      <4>1. ManagedPositions(chain) = saved
        BY <1>1, <3>1, <3>3 DEF ChainInv, NoneInv
      <4>2. ManagedPositions(chain) = ManagedPositions(original)
            /\ IsPrefix(Others(original), Others(chain))
        BY <2>1, <2>2, <3>1, <3>3, <4>1
      <4> QED BY <2>1, <4>2, RestoredExtends
    <3> QED BY <3>1, <3>2, <3>3
  <2>8. GivesUpForAReason
    BY <1>1 DEF ChainInv, NoneInv, RefusalInv, Reason, GivesUpForAReason
  <2> QED BY <2>5, <2>6, <2>7, <2>8 DEF ReportExact
<1> QED BY <1>1, ChainInvariant, WordsInvariant, RefusalInvariant, PTL

=============================================================================
