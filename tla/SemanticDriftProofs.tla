-------------------------- MODULE SemanticDriftProofs --------------------------
(***************************************************************************)
(* Proofs about SemanticDrift, for every budget and allow-list: a          *)
(* difference is exact, a verdict is the same both ways, and merging keeps *)
(* validity.  Each is shown for any finite payloads, and then stated of    *)
(* those that MCSemanticDrift makes drift apart.                           *)
(***************************************************************************)
EXTENDS MCSemanticDrift, GraphQueriesProofs, FiniteSetTheorems

\* A payload of finitely many nodes and edges, whatever they are.
IsPayload(p) ==
    /\ p = [nodes |-> p.nodes, edges |-> p.edges]
    /\ IsFiniteSet(p.nodes) /\ IsFiniteSet(p.edges)

\* A function that counts.
Counts(counts) == \A key \in DOMAIN counts : counts[key] \in Nat

LEMMA CountsAreNumbers ==
    ASSUME NEW p, IsPayload(p)
    PROVE  /\ Cardinality(p.nodes) \in Nat /\ Cardinality(p.edges) \in Nat
           /\ Counts(nodeTypeCounts(p)) /\ Counts(relationCounts(p))
  <1>1. Cardinality(p.nodes) \in Nat /\ Cardinality(p.edges) \in Nat
    BY FS_CardinalityType DEF IsPayload
  <1>2. ASSUME NEW t PROVE Cardinality({n \in p.nodes : n.type = t}) \in Nat
    <2>1. {n \in p.nodes : n.type = t} \in SUBSET p.nodes
      OBVIOUS
    <2> QED BY <2>1, FS_Subset, FS_CardinalityType DEF IsPayload
  <1>3. ASSUME NEW r PROVE Cardinality({e \in p.edges : e.rel = r}) \in Nat
    <2>1. {e \in p.edges : e.rel = r} \in SUBSET p.edges
      OBVIOUS
    <2> QED BY <2>1, FS_Subset, FS_CardinalityType DEF IsPayload
  <1>4. Counts(nodeTypeCounts(p))
    BY <1>2 DEF Counts, nodeTypeCounts
  <1>5. Counts(relationCounts(p))
    BY <1>3 DEF Counts, relationCounts
  <1> QED BY <1>1, <1>4, <1>5

------------------------------------------------------------------------------
(* Sums.  A sum is a fold, defined by recursion over the subsets of a set. *)
(* That there is such a function is shown by giving one, which counts: a   *)
(* magnitude of n is n pairs.  That the fold is that count is shown for a  *)
(* smallest set that would be an exception.                                *)

Pairs(f, S) == UNION {{k} \X (1 .. f[k]) : k \in S}

LEMMA PairsOf ==
    ASSUME NEW f, NEW S
    PROVE  \A x : x \in Pairs(f, S) <=> \E k \in S : x \in {k} \X (1 .. f[k])
  BY DEF Pairs

LEMMA PairsAreFinite ==
    ASSUME NEW f, NEW S, IsFiniteSet(S), \A k \in S : f[k] \in Nat
    PROVE  IsFiniteSet(Pairs(f, S)) /\ Cardinality(Pairs(f, S)) \in Nat
  <1> DEFINE column == [k \in S |-> {k} \X (1 .. f[k])]
             columns == {{k} \X (1 .. f[k]) : k \in S}
  <1>1. \A k \in S : IsFiniteSet({k} \X (1 .. f[k]))
    <2>1. TAKE k \in S
    <2>2. 1 \in Int /\ f[k] \in Int
      OBVIOUS
    <2>3. IsFiniteSet({k}) /\ IsFiniteSet(1 .. f[k])
      BY <2>2, FS_Singleton, FS_Interval
    <2> QED BY <2>3, FS_Product
  <1>2. column \in Surjection(S, columns)
    BY DEF Surjection
  <1>3. IsFiniteSet(columns)
    BY <1>2, FS_Surjection
  <1>4. IsFiniteSet(UNION columns)
    BY <1>1, <1>3, FS_UNION
  <1> QED BY <1>4, FS_CardinalityType DEF Pairs

LEMMA OneColumnLess ==
    ASSUME NEW f, NEW S, IsFiniteSet(S), \A k \in S : f[k] \in Nat, NEW x \in S
    PROVE  Cardinality(Pairs(f, S)) = f[x] + Cardinality(Pairs(f, S \ {x}))
  <1> DEFINE rest == Pairs(f, S \ {x})
             column == {x} \X (1 .. f[x])
  <1>1. IsFiniteSet(rest) /\ Cardinality(rest) \in Nat
    BY FS_RemoveElement, PairsAreFinite
  <1>2. IsFiniteSet(column) /\ Cardinality(column) = f[x]
    <2>0. PICK n \in Nat : n = f[x]
      OBVIOUS
    <2>1. /\ IsFiniteSet({x}) /\ Cardinality({x}) = 1
          /\ IsFiniteSet(1 .. f[x]) /\ Cardinality(1 .. f[x]) = f[x]
      <3>1. IsFiniteSet({x}) /\ Cardinality({x}) = 1
        BY FS_Singleton
      <3>2. 1 \in Int /\ n \in Int
        OBVIOUS
      <3>3. IsFiniteSet(1 .. n) /\ Cardinality(1 .. n) = IF 1 > n THEN 0 ELSE n - 1 + 1
        BY <3>2, FS_Interval
      <3>4. Cardinality(1 .. n) = n
        BY <3>3
      <3> QED BY <2>0, <3>1, <3>3, <3>4
    <2>2. IsFiniteSet(column) /\ Cardinality(column) = 1 * f[x]
      BY <2>1, FS_Product
    <2> QED BY <2>2
  <1>3. Pairs(f, S) = column \cup rest
    <2>1. \A y : y \in Pairs(f, S) <=> y \in column \/ y \in rest
      BY PairsOf
    <2> QED BY <2>1
  <1>4. column \cap rest = {}
    BY PairsOf
  <1>5. Cardinality(column \cup rest) = Cardinality(column) + Cardinality(rest) - Cardinality({})
    <2> HIDE DEF rest, column
    <2>1. Cardinality(column \cup rest) =
              Cardinality(column) + Cardinality(rest) - Cardinality(column \cap rest)
      BY <1>1, <1>2, FS_Union
    <2> QED BY <1>4, <2>1
  <1> HIDE DEF rest, column
  <1>6. Cardinality(Pairs(f, S)) = f[x] + Cardinality(rest) - 0
    BY <1>2, <1>3, <1>5, FS_EmptySet
  <1>7. f[x] \in Nat
    OBVIOUS
  <1> QED BY <1>1, <1>6, <1>7 DEF rest

LEMMA SumCounts ==
    ASSUME NEW f, NEW S, IsFiniteSet(S), \A k \in S : f[k] \in Nat
    PROVE  SumFunctionOnSet(f, S) = Cardinality(Pairs(f, S))
  <1> DEFINE first(s) == CHOOSE x \in s : TRUE
             Folds(iter) ==
                iter = [s \in SUBSET S |-> IF s = {} THEN 0 ELSE f[first(s)] + iter[s \ {first(s)}]]
             sum == CHOOSE iter : Folds(iter)
             count == [s \in SUBSET S |-> Cardinality(Pairs(f, s))]
  <1>1. SumFunctionOnSet(f, S) = sum[S]
    BY DEF SumFunctionOnSet, FoldFunctionOnSet, MapThenFoldSet
  <1>2. \A s \in SUBSET S : s # {} => first(s) \in s
    OBVIOUS
  <1> HIDE DEF first
  <1>3. \A s \in SUBSET S : IsFiniteSet(s)
    BY FS_Subset
  <1>4. \A s \in SUBSET S : s # {} =>
            Cardinality(Pairs(f, s)) = f[first(s)] + Cardinality(Pairs(f, s \ {first(s)}))
    BY <1>2, <1>3, OneColumnLess
  <1>5. Cardinality(Pairs(f, {})) = 0
    <2>1. Pairs(f, {}) = {}
      BY DEF Pairs
    <2> QED BY <2>1, FS_EmptySet
  <1>6. Folds(count)
    <2>1. \A s \in SUBSET S : s \ {first(s)} \in SUBSET S
      OBVIOUS
    <2>2. \A s \in SUBSET S :
              count[s] = IF s = {} THEN 0 ELSE f[first(s)] + count[s \ {first(s)}]
      BY <1>4, <1>5, <2>1
    <2> QED BY <2>2
  <1>7. Folds(sum)
    <2> HIDE DEF Folds, count
    <2> QED BY <1>6
  <1> HIDE DEF sum
  <1>8. \A s \in SUBSET S : sum[s] = count[s]
    <2> DEFINE exceptions == {s \in SUBSET S : sum[s] # count[s]}
    <2>1. SUFFICES ASSUME exceptions # {} PROVE FALSE
      OBVIOUS
    <2>2. IsWellFoundedOn(StrictSubsetOrdering(S), SUBSET S)
      BY FS_StrictSubsetOrderingWellFounded, FS_FiniteSubsetsOfFinite
    <2>3. PICK s \in exceptions : \A t \in exceptions : ~(<<t, s>> \in StrictSubsetOrdering(S))
      BY <2>1, <2>2, WFMin
    <2>4. s # {}
      BY <1>5, <1>7, <2>3
    <2>5. s \ {first(s)} \in SUBSET S /\ s \ {first(s)} # s
      BY <1>2, <2>3, <2>4
    <2>6. <<s \ {first(s)}, s>> \in StrictSubsetOrdering(S)
      BY <2>3, <2>5 DEF StrictSubsetOrdering
    <2>7. sum[s \ {first(s)}] = count[s \ {first(s)}]
      BY <2>3, <2>5, <2>6
    <2>8. sum[s] = f[first(s)] + sum[s \ {first(s)}]
      BY <1>7, <2>3, <2>4
    <2>9. count[s] = f[first(s)] + count[s \ {first(s)}]
      BY <1>6, <2>3, <2>4
    <2> QED BY <2>3, <2>7, <2>8, <2>9
  <1> QED BY <1>1, <1>8

\* What does not count may be left out of a sum.
LEMMA SumsAgree ==
    ASSUME NEW f, NEW R, NEW g, NEW S, IsFiniteSet(S), R \subseteq S,
           \A k \in R : f[k] = g[k] /\ g[k] \in Nat,
           \A k \in S \ R : g[k] = 0
    PROVE  SumFunctionOnSet(f, R) = SumFunctionOnSet(g, S)
  <1>1. IsFiniteSet(R)
    BY FS_Subset
  <1>2. Pairs(f, R) = Pairs(g, S)
    <2>1. \A k \in S \ R : 1 .. g[k] = {}
      OBVIOUS
    <2>2. \A x : x \in Pairs(f, R) <=> x \in Pairs(g, S)
      BY <2>1, PairsOf
    <2> QED BY <2>2
  <1> QED BY <1>1, <1>2, SumCounts

------------------------------------------------------------------------------
(* Differences.                                                            *)

\* A difference of counts is turned round by exchanging them, and that of a count
\* with itself is empty.
LEMMA DifferenceOfCounts ==
    ASSUME NEW before, NEW after, Counts(before), Counts(after)
    PROVE  /\ DOMAIN diffCounts(after, before) = DOMAIN diffCounts(before, after)
           /\ \A key \in DOMAIN diffCounts(before, after) :
                 /\ diffCounts(before, after)[key] \in Int
                 /\ diffCounts(after, before)[key] = -diffCounts(before, after)[key]
           /\ before = after => DOMAIN diffCounts(before, after) = {}
  <1> DEFINE count(counts, key) == IF key \in DOMAIN counts THEN counts[key] ELSE 0
  <1>1. \A key : count(before, key) \in Int /\ count(after, key) \in Int
    BY DEF Counts
  <1>2. diffCounts(before, after) =
            [key \in {k \in DOMAIN before \cup DOMAIN after : count(after, k) - count(before, k) # 0}
                |-> count(after, key) - count(before, key)]
    BY DEF diffCounts
  <1>3. diffCounts(after, before) =
            [key \in {k \in DOMAIN after \cup DOMAIN before : count(before, k) - count(after, k) # 0}
                |-> count(before, key) - count(after, key)]
    BY DEF diffCounts
  <1>4. before = after => \A key : count(after, key) = count(before, key)
    OBVIOUS
  <1> HIDE DEF count
  <1> QED BY <1>1, <1>2, <1>3, <1>4

\* A sum of magnitudes does not see the signs.
LEMMA SumsAreAbsolute ==
    ASSUME NEW there, NEW back, NEW keys, DOMAIN back = DOMAIN there,
           \A key \in DOMAIN there : there[key] \in Int /\ back[key] = -there[key]
    PROVE  AbsoluteSum(there, keys) = AbsoluteSum(back, keys)
  <1> DEFINE magnitudes(deltas) ==
               [key \in DOMAIN deltas |-> IF deltas[key] < 0 THEN -deltas[key] ELSE deltas[key]]
  <1>1. magnitudes(there) = magnitudes(back)
    <2>1. \A key \in DOMAIN there :
              (IF there[key] < 0 THEN -there[key] ELSE there[key])
              = (IF back[key] < 0 THEN -back[key] ELSE back[key])
      OBVIOUS
    <2> QED BY <2>1
  <1>2. PICK m : m = magnitudes(there) /\ m = magnitudes(back)
    BY <1>1
  <1> QED BY <1>2 DEF AbsoluteSum

\* The two counts of everything, whether there was a snapshot before or not.
LEMMA DifferenceIs ==
    ASSUME NEW s, s # NoSnapshot, NEW t, NEW diff, diff = computeSemanticDiff(s, t)
    PROVE  /\ diff.nodeDelta = Cardinality(t.payload.nodes) - Cardinality(s.payload.nodes)
           /\ diff.edgeDelta = Cardinality(t.payload.edges) - Cardinality(s.payload.edges)
           /\ diff.structureDigestChanged <=>
                s.payload.nodes # t.payload.nodes \/ s.payload.edges # t.payload.edges
           /\ diff.changedNodeTypeCounts =
                diffCounts(nodeTypeCounts(s.payload), nodeTypeCounts(t.payload))
           /\ diff.changedRelationCounts =
                diffCounts(relationCounts(s.payload), relationCounts(t.payload))
  BY DEF computeSemanticDiff

\* Fingerprint and source path do not matter to it.
LEMMA DifferenceOfPayloads ==
    ASSUME NEW s, NEW t, NEW s2, NEW t2, s # NoSnapshot, s2 # NoSnapshot,
           s2.payload = s.payload, t2.payload = t.payload
    PROVE  computeSemanticDiff(s2, t2) = computeSemanticDiff(s, t)
  BY DEF computeSemanticDiff

\* The observed drift is the same there and back.
LEMMA DriftBothWays ==
    ASSUME NEW s, s # NoSnapshot, IsPayload(s.payload), NEW t, t # NoSnapshot, IsPayload(t.payload)
    PROVE  observed(computeSemanticDiff(s, t)) = observed(computeSemanticDiff(t, s))
  <1>1. PICK p, q : p = s.payload /\ q = t.payload /\ IsPayload(p) /\ IsPayload(q)
    OBVIOUS
  <1>2. PICK there, back : there = computeSemanticDiff(s, t) /\ back = computeSemanticDiff(t, s)
    OBVIOUS
  <1>3. PICK types, rels, backTypes, backRels :
            /\ types = there.changedNodeTypeCounts /\ rels = there.changedRelationCounts
            /\ backTypes = back.changedNodeTypeCounts /\ backRels = back.changedRelationCounts
    OBVIOUS
  <1>4. /\ types = diffCounts(nodeTypeCounts(p), nodeTypeCounts(q))
        /\ rels = diffCounts(relationCounts(p), relationCounts(q))
        /\ backTypes = diffCounts(nodeTypeCounts(q), nodeTypeCounts(p))
        /\ backRels = diffCounts(relationCounts(q), relationCounts(p))
    BY <1>1, <1>2, <1>3, DifferenceIs
  <1>5. /\ Counts(nodeTypeCounts(p)) /\ Counts(nodeTypeCounts(q))
        /\ Counts(relationCounts(p)) /\ Counts(relationCounts(q))
    BY <1>1, CountsAreNumbers
  <1>6. /\ DOMAIN backTypes = DOMAIN types
        /\ \A key \in DOMAIN types : types[key] \in Int /\ backTypes[key] = -types[key]
    BY <1>4, <1>5, DifferenceOfCounts
  <1>7. /\ DOMAIN backRels = DOMAIN rels
        /\ \A key \in DOMAIN rels : rels[key] \in Int /\ backRels[key] = -rels[key]
    BY <1>4, <1>5, DifferenceOfCounts
  <1>8. \A keys : AbsoluteSum(types, keys) = AbsoluteSum(backTypes, keys)
    BY <1>6, SumsAreAbsolute
  <1>9. \A keys : AbsoluteSum(rels, keys) = AbsoluteSum(backRels, keys)
    BY <1>7, SumsAreAbsolute
  <1>10. PICK n \in Int, m \in Int :
             /\ n = there.nodeDelta /\ back.nodeDelta = -n
             /\ m = there.edgeDelta /\ back.edgeDelta = -m
    <2>1. /\ Cardinality(p.nodes) \in Nat /\ Cardinality(p.edges) \in Nat
          /\ Cardinality(q.nodes) \in Nat /\ Cardinality(q.edges) \in Nat
      BY <1>1, CountsAreNumbers
    <2>2. /\ there.nodeDelta = Cardinality(q.nodes) - Cardinality(p.nodes)
          /\ there.edgeDelta = Cardinality(q.edges) - Cardinality(p.edges)
          /\ back.nodeDelta = Cardinality(p.nodes) - Cardinality(q.nodes)
          /\ back.edgeDelta = Cardinality(p.edges) - Cardinality(q.edges)
      BY <1>1, <1>2, DifferenceIs
    <2> QED BY <2>1, <2>2
  <1>11. /\ (IF n < 0 THEN -n ELSE n) = (IF -n < 0 THEN -(-n) ELSE -n)
         /\ (IF m < 0 THEN -m ELSE m) = (IF -m < 0 THEN -(-m) ELSE -m)
    OBVIOUS
  <1>12. observed(there) = observed(back)
    BY <1>3, <1>6, <1>7, <1>8, <1>9, <1>10, <1>11 DEF observed
  <1> QED BY <1>2, <1>12

\* A refresh whose payload is that of the snapshot before reports no change, and
\* one that differs in anything reports it, also when no count tells: the
\* digests are of every node and edge (ingestion.service.ts).
THEOREM DifferenceIsExact ==
    ASSUME NEW s, s # NoSnapshot, IsPayload(s.payload), NEW t, IsPayload(t.payload)
    PROVE  hasSemanticChanges(computeSemanticDiff(s, t)) <=> s.payload # t.payload
  <1>1. PICK p, q : p = s.payload /\ q = t.payload /\ IsPayload(p) /\ IsPayload(q)
    OBVIOUS
  <1>2. PICK diff : diff = computeSemanticDiff(s, t)
    OBVIOUS
  <1>3. ASSUME p # q PROVE hasSemanticChanges(diff)
    <2>1. p.nodes # q.nodes \/ p.edges # q.edges
      BY <1>1, <1>3 DEF IsPayload
    <2> QED BY <1>1, <1>2, <2>1, DifferenceIs DEF hasSemanticChanges
  <1>4. ASSUME p = q PROVE ~hasSemanticChanges(diff)
    <2>0. /\ diff.nodeDelta = Cardinality(q.nodes) - Cardinality(p.nodes)
          /\ diff.edgeDelta = Cardinality(q.edges) - Cardinality(p.edges)
          /\ diff.structureDigestChanged <=> p.nodes # q.nodes \/ p.edges # q.edges
          /\ diff.changedNodeTypeCounts = diffCounts(nodeTypeCounts(p), nodeTypeCounts(q))
          /\ diff.changedRelationCounts = diffCounts(relationCounts(p), relationCounts(q))
      BY <1>1, <1>2, DifferenceIs
    <2>1. /\ Cardinality(p.nodes) \in Nat /\ Cardinality(p.edges) \in Nat
          /\ Counts(nodeTypeCounts(p)) /\ Counts(relationCounts(p))
      BY <1>1, CountsAreNumbers
    <2>2. diff.nodeDelta = 0 /\ diff.edgeDelta = 0
      <3>1. /\ diff.nodeDelta = Cardinality(p.nodes) - Cardinality(p.nodes)
            /\ diff.edgeDelta = Cardinality(p.edges) - Cardinality(p.edges)
        BY <2>0, <1>4
      <3> QED BY <2>1, <3>1
    <2>3. ~diff.structureDigestChanged
      BY <2>0, <1>4
    <2>4. DOMAIN diff.changedNodeTypeCounts = {} /\ DOMAIN diff.changedRelationCounts = {}
      <3>1. /\ diff.changedNodeTypeCounts = diffCounts(nodeTypeCounts(p), nodeTypeCounts(p))
            /\ diff.changedRelationCounts = diffCounts(relationCounts(p), relationCounts(p))
        BY <2>0, <1>4
      <3> QED BY <2>1, <3>1, DifferenceOfCounts
    <2> QED BY <2>2, <2>3, <2>4 DEF hasSemanticChanges
  <1> QED BY <1>1, <1>2, <1>3, <1>4

\* The policy gives a change and the way back from it one verdict, so whatever a
\* refresh let in can be taken out again (semantic-drift-policy.service.ts).
THEOREM VerdictBothWays ==
    ASSUME NEW s, s # NoSnapshot, IsPayload(s.payload), NEW t, t # NoSnapshot, IsPayload(t.payload)
    PROVE  withinBudget(s, t) <=> withinBudget(t, s)
  BY DriftBothWays DEF withinBudget, exceeded

\* Payloads that pass the ontology gate one by one pass it merged, however many
\* parsers there are and however their nodes overlap (ingestion.service.ts,
\* ontology-constraints.service.ts).
THEOREM MergedStaysValid ==
    ASSUME NEW payloads, \A p \in payloads : violations(p) = {}
    PROVE  violations(mergePayloads(payloads)) = {}
  <1>1. SUFFICES ASSUME NEW e \in violations(mergePayloads(payloads)) PROVE FALSE
    OBVIOUS
  <1>2. PICK p \in payloads : e \in p.edges
    BY <1>1 DEF violations, mergePayloads
  <1>3. p.nodes \subseteq mergePayloads(payloads).nodes
    BY DEF mergePayloads
  <1>4. e \in violations(p)
    BY <1>1, <1>2, <1>3 DEF violations
  <1> QED BY <1>2, <1>4

-----------------------------------------------------------------------------
(* The same of the payloads that MCSemanticDrift makes drift apart.         *)

DriftInvariant == previous \in AllPayloads /\ current \in AllPayloads

LEMMA PayloadsDrift == Spec => []DriftInvariant
  <1>1. Init => DriftInvariant
    BY DEF Init, DriftInvariant
  <1>2. DriftInvariant /\ [Next]_vars => DriftInvariant'
    <2>1. SUFFICES ASSUME DriftInvariant, [Next]_vars PROVE DriftInvariant'
      OBVIOUS
    <2>2. CASE NodeDrifts /\ UNCHANGED previous
      BY <2>1, <2>2 DEF DriftInvariant, NodeDrifts, AllPayloads, Toggle
    <2>3. CASE EdgeDrifts /\ UNCHANGED previous
      BY <2>1, <2>3 DEF DriftInvariant, EdgeDrifts, AllPayloads, Toggle
    <2>4. CASE UNCHANGED vars
      BY <2>1, <2>4 DEF DriftInvariant, vars
    <2> QED BY <2>1, <2>2, <2>3, <2>4 DEF Next
  <1> QED BY <1>1, <1>2, PTL DEF Spec

LEMMA PayloadsAreFinite == \A p \in AllPayloads : IsPayload(p)
  <1>1. \A x : IsFiniteSet({x})
    BY FS_Singleton
  <1>2. IsFiniteSet({Lead} \cup ({Email} \cup ({Admin} \cup ({Viewer} \cup {Page}))))
    BY <1>1, FS_Union
  <1>3. IsFiniteSet(Nodes)
    BY <1>2 DEF Nodes
  <1>4. \A a, b, c, d : IsFiniteSet({a, b, c, d})
    <2>1. TAKE a, b, c, d
    <2>2. IsFiniteSet({a} \cup ({b} \cup ({c} \cup {d})))
      BY <1>1, FS_Union
    <2> QED BY <2>2
  <1>5. IsFiniteSet(Edges)
    BY <1>4 DEF Edges
  <1> QED BY <1>3, <1>5, FS_Subset DEF AllPayloads, IsPayload

LEMMA SnapshotsOf ==
    ASSUME NEW p, NEW fingerprint
    PROVE  Snap(fingerprint, p) # NoSnapshot /\ Snap(fingerprint, p).payload = p
  BY DEF Snap, buildSemanticSnapshot, NoSnapshot

\* A refresh reports changes for precisely the payloads that differ: nothing that
\* changed the graph goes unseen and nothing else is reported (computeSemanticDiff,
\* hasSemanticChanges in ingestion.service.ts).
THEOREM EveryChangeSeen == Spec => []ChangesAreSeen
  <1>1. DriftInvariant => ChangesAreSeen
    <2>1. SUFFICES ASSUME DriftInvariant PROVE ChangesAreSeen
      OBVIOUS
    <2>2. IsPayload(previous) /\ IsPayload(current)
      BY <2>1, PayloadsAreFinite DEF DriftInvariant
    <2>3. PICK s, t : s = Snap(1, previous) /\ t = Snap(2, current)
      OBVIOUS
    <2>4. s # NoSnapshot /\ s.payload = previous /\ t.payload = current
      BY <2>3, SnapshotsOf
    <2>5. hasSemanticChanges(computeSemanticDiff(s, t)) <=> s.payload # t.payload
      BY <2>2, <2>4, DifferenceIsExact
    <2> QED BY <2>3, <2>4, <2>5 DEF ChangesAreSeen, Diff
  <1> QED BY <1>1, PayloadsDrift, PTL

\* What a refresh may change it may change back (SemanticDriftPolicyService.evaluate).
THEOREM EveryChangeUndone == Spec => []RollbackAllowed
  <1>1. DriftInvariant => RollbackAllowed
    <2>1. SUFFICES ASSUME DriftInvariant PROVE RollbackAllowed
      OBVIOUS
    <2>2. IsPayload(previous) /\ IsPayload(current)
      BY <2>1, PayloadsAreFinite DEF DriftInvariant
    <2>3. PICK s, t, s2, t2 :
              /\ s = Snap(1, previous) /\ t = Snap(2, current)
              /\ s2 = Snap(1, current) /\ t2 = Snap(2, previous)
      OBVIOUS
    <2>4. /\ s # NoSnapshot /\ t # NoSnapshot /\ s2 # NoSnapshot
          /\ s.payload = previous /\ t.payload = current
          /\ s2.payload = t.payload /\ t2.payload = s.payload
      BY <2>3, SnapshotsOf
    <2>5. withinBudget(s, t) <=> withinBudget(t, s)
      BY <2>2, <2>4, VerdictBothWays
    <2>6. computeSemanticDiff(s2, t2) = computeSemanticDiff(t, s)
      BY <2>4, DifferenceOfPayloads
    <2>7. withinBudget(s2, t2) <=> withinBudget(t, s)
      BY <2>4, <2>6 DEF withinBudget
    <2> QED BY <2>3, <2>5, <2>7 DEF RollbackAllowed, Judged
  <1> QED BY <1>1, PayloadsDrift, PTL

\* Parsers whose own payloads pass the ontology gate pass it together.
THEOREM MergedPayloadsValid == Spec => []MergeKeepsValidity
  <1>1. MergeKeepsValidity
    <2>1. SUFFICES ASSUME violations(previous) = {}, violations(current) = {}
                   PROVE  violations(mergePayloads({previous, current})) = {}
      BY DEF MergeKeepsValidity
    <2>2. \A p \in {previous, current} : violations(p) = {}
      BY <2>1
    <2> QED BY <2>2, MergedStaysValid
  <1> QED BY <1>1, PTL

-----------------------------------------------------------------------------
(* Grants: what the files of a payload give, the graph parsed from them     *)
(* holds, and nothing else.                                                 *)

GrantsObject(p, n) == Edge(n, "GRANTS_OBJECT", Lead) \in p.edges
GrantsField(p, n) == Edge(n, "GRANTS_FIELD", Email) \in p.edges

\* A file gives its principal, and a node and an edge for each of its two grants.
LEMMA FileGives ==
    ASSUME NEW p, NEW n \in {Admin, Viewer}
    PROVE  /\ \A e : e \in parseEntity(FileOf(p, n)).edges <=>
                  \/ GrantsObject(p, n) /\ e = Edge(n, "GRANTS_OBJECT", Lead)
                  \/ GrantsField(p, n) /\ e = Edge(n, "GRANTS_FIELD", Email)
           /\ \A m : m \in parseEntity(FileOf(p, n)).nodes <=>
                  m = n \/ (GrantsObject(p, n) /\ m = Lead) \/ (GrantsField(p, n) /\ m = Email)
  <1>1. PICK objectFlag, fieldFlag :
            /\ objectFlag = IF GrantsObject(p, n) THEN "viewAllRecords" ELSE "allowRead"
            /\ fieldFlag = IF GrantsField(p, n) THEN "editable" ELSE "hidden"
    OBVIOUS
  <1>2. PICK object, field :
            /\ object = Entry("objectPermissions", "Lead", objectFlag)
            /\ field = Entry("fieldPermissions", "Lead.Email", fieldFlag)
    OBVIOUS
  <1>3. FileOf(p, n) = [type |-> n.type, name |-> n.name, entries |-> {object, field}]
    BY <1>1, <1>2 DEF FileOf, GrantsObject, GrantsField
  <1>4. /\ object.section = "objectPermissions" /\ object.name = "Lead"
        /\ object.flags = {"readable", objectFlag}
        /\ field.section = "fieldPermissions" /\ field.name = "Lead.Email"
        /\ field.flags = {"readable", fieldFlag}
    BY <1>2 DEF Entry
  <1>5. /\ Sections["objectPermissions"].type = "Object"
        /\ Sections["objectPermissions"].rel = "GRANTS_OBJECT"
        /\ Sections["objectPermissions"].grants = canEditObject
        /\ Sections["fieldPermissions"].type = "Field"
        /\ Sections["fieldPermissions"].rel = "GRANTS_FIELD"
        /\ Sections["fieldPermissions"].grants = {"editable"}
    BY DEF Sections
  <1>6. object.flags \cap Sections[object.section].grants # {} <=> GrantsObject(p, n)
    BY <1>1, <1>4, <1>5 DEF canEditObject
  <1>7. field.flags \cap Sections[field.section].grants # {} <=> GrantsField(p, n)
    BY <1>1, <1>4, <1>5
  <1>8. /\ Node(Sections[object.section].type, object.name) = Lead
        /\ Node(Sections[field.section].type, field.name) = Email
        /\ Node(n.type, n.name) = n
    BY <1>4, <1>5 DEF Node, Lead, Email, Admin, Viewer
  <1>9. PICK file : file = FileOf(p, n)
    OBVIOUS
  <1>10. file.type = n.type /\ file.name = n.name /\ file.entries = {object, field}
    BY <1>3, <1>9
  <1> DEFINE granting == {x \in file.entries : x.flags \cap Sections[x.section].grants # {}}
  <1>11. \A x : x \in granting <=>
             (x = object /\ GrantsObject(p, n)) \/ (x = field /\ GrantsField(p, n))
    BY <1>6, <1>7, <1>10
  <1>12. parseEntity(file).edges =
            {Edge(n, Sections[x.section].rel, Node(Sections[x.section].type, x.name)) : x \in granting}
    BY <1>8, <1>10 DEF parseEntity
  <1>13. parseEntity(file).nodes =
            {n} \cup {Node(Sections[x.section].type, x.name) : x \in granting}
    BY <1>8, <1>10 DEF parseEntity
  <1> HIDE DEF granting
  <1>14. Edge(n, Sections[object.section].rel, Node(Sections[object.section].type, object.name))
            = Edge(n, "GRANTS_OBJECT", Lead)
    BY <1>4, <1>5, <1>8
  <1>15. Edge(n, Sections[field.section].rel, Node(Sections[field.section].type, field.name))
            = Edge(n, "GRANTS_FIELD", Email)
    BY <1>4, <1>5, <1>8
  <1>16. \A e : e \in parseEntity(file).edges <=>
                  \/ GrantsObject(p, n) /\ e = Edge(n, "GRANTS_OBJECT", Lead)
                  \/ GrantsField(p, n) /\ e = Edge(n, "GRANTS_FIELD", Email)
    BY <1>11, <1>12, <1>14, <1>15
  <1>17. \A m : m \in parseEntity(file).nodes <=>
                  m = n \/ (GrantsObject(p, n) /\ m = Lead) \/ (GrantsField(p, n) /\ m = Email)
    BY <1>8, <1>11, <1>13
  <1> QED BY <1>9, <1>16, <1>17

\* The graph of a payload: its nodes and what its principals are granted.
LEMMA GraphHolds ==
    ASSUME NEW p \in AllPayloads
    PROVE  /\ \A e : e \in Graph(p).edges <=>
                  \E n \in {Admin, Viewer} :
                     /\ n \in p.nodes
                     /\ \/ GrantsObject(p, n) /\ e = Edge(n, "GRANTS_OBJECT", Lead)
                        \/ GrantsField(p, n) /\ e = Edge(n, "GRANTS_FIELD", Email)
           /\ \A m : m \in Graph(p).nodes <=>
                  \/ m \in p.nodes
                  \/ \E n \in {Admin, Viewer} :
                        n \in p.nodes /\ ((GrantsObject(p, n) /\ m = Lead) \/ (GrantsField(p, n) /\ m = Email))
  <1>1. PICK files : files = {FileOf(p, n) : n \in p.nodes \cap {Admin, Viewer}}
    OBVIOUS
  <1>2. /\ Graph(p).edges = UNION {parseEntity(f).edges : f \in files}
        /\ Graph(p).nodes = (UNION {parseEntity(f).nodes : f \in files}) \cup p.nodes
    <2>1. PICK nodes, edges :
              /\ nodes = UNION {parseEntity(f).nodes : f \in files}
              /\ edges = UNION {parseEntity(f).edges : f \in files}
      OBVIOUS
    <2>2. parsePermissions(files) = [nodes |-> nodes, edges |-> edges]
      BY <2>1 DEF parsePermissions
    <2>3. Graph(p) = [nodes |-> nodes \cup p.nodes, edges |-> edges]
      BY <1>1, <2>2 DEF Graph
    <2>4. Graph(p).nodes = nodes \cup p.nodes /\ Graph(p).edges = edges
      BY <2>3
    <2> QED BY <2>1, <2>4
  <1>3. \A e : e \in Graph(p).edges <=>
            \E n \in {Admin, Viewer} : n \in p.nodes /\ e \in parseEntity(FileOf(p, n)).edges
    <2>1. \A e : e \in Graph(p).edges <=> \E f \in files : e \in parseEntity(f).edges
      BY <1>2
    <2> QED BY <1>1, <2>1
  <1>4. \A m : m \in Graph(p).nodes <=>
            \/ m \in p.nodes
            \/ \E n \in {Admin, Viewer} : n \in p.nodes /\ m \in parseEntity(FileOf(p, n)).nodes
    <2>1. \A m : m \in Graph(p).nodes <=> m \in p.nodes \/ \E f \in files : m \in parseEntity(f).nodes
      <3>1. PICK nodes : nodes = UNION {parseEntity(f).nodes : f \in files}
        OBVIOUS
      <3>2. \A m : m \in nodes <=> \E f \in files : m \in parseEntity(f).nodes
        BY <3>1
      <3>3. Graph(p).nodes = nodes \cup p.nodes
        BY <1>2, <3>1
      <3> QED BY <3>2, <3>3
    <2> QED BY <1>1, <2>1
  <1>5. \A e : \A n \in {Admin, Viewer} : e \in parseEntity(FileOf(p, n)).edges <=>
            \/ GrantsObject(p, n) /\ e = Edge(n, "GRANTS_OBJECT", Lead)
            \/ GrantsField(p, n) /\ e = Edge(n, "GRANTS_FIELD", Email)
    BY FileGives
  <1>6. \A m : \A n \in {Admin, Viewer} : m \in parseEntity(FileOf(p, n)).nodes <=>
            m = n \/ (GrantsObject(p, n) /\ m = Lead) \/ (GrantsField(p, n) /\ m = Email)
    BY FileGives
  <1>7. ASSUME NEW e
        PROVE  e \in Graph(p).edges <=>
                  \E n \in {Admin, Viewer} :
                     /\ n \in p.nodes
                     /\ \/ GrantsObject(p, n) /\ e = Edge(n, "GRANTS_OBJECT", Lead)
                        \/ GrantsField(p, n) /\ e = Edge(n, "GRANTS_FIELD", Email)
    BY <1>3, <1>5
  <1>8. ASSUME NEW m
        PROVE  m \in Graph(p).nodes <=>
                  \/ m \in p.nodes
                  \/ \E n \in {Admin, Viewer} :
                        n \in p.nodes /\ ((GrantsObject(p, n) /\ m = Lead) \/ (GrantsField(p, n) /\ m = Email))
    <2>1. m \in Graph(p).nodes <=>
              \/ m \in p.nodes
              \/ \E n \in {Admin, Viewer} : n \in p.nodes /\ m \in parseEntity(FileOf(p, n)).nodes
      BY <1>4
    <2>2. \A n \in {Admin, Viewer} : m \in parseEntity(FileOf(p, n)).nodes <=>
              m = n \/ (GrantsObject(p, n) /\ m = Lead) \/ (GrantsField(p, n) /\ m = Email)
      BY <1>6
    <2>3. ASSUME m \in Graph(p).nodes, m \notin p.nodes
          PROVE  \E n \in {Admin, Viewer} :
                    n \in p.nodes /\ ((GrantsObject(p, n) /\ m = Lead) \/ (GrantsField(p, n) /\ m = Email))
      <3>1. PICK n \in {Admin, Viewer} : n \in p.nodes /\ m \in parseEntity(FileOf(p, n)).nodes
        BY <2>1, <2>3
      <3>2. m = n \/ (GrantsObject(p, n) /\ m = Lead) \/ (GrantsField(p, n) /\ m = Email)
        BY <2>2, <3>1
      <3>3. m # n
        BY <2>3, <3>1
      <3>4. n \in p.nodes /\ ((GrantsObject(p, n) /\ m = Lead) \/ (GrantsField(p, n) /\ m = Email))
        BY <3>1, <3>2, <3>3
      <3> WITNESS n \in {Admin, Viewer}
      <3> QED BY <3>4
    <2>4. ASSUME NEW n \in {Admin, Viewer}, n \in p.nodes,
                 (GrantsObject(p, n) /\ m = Lead) \/ (GrantsField(p, n) /\ m = Email)
          PROVE  m \in Graph(p).nodes
      BY <2>1, <2>2, <2>4
    <2> QED BY <2>1, <2>3, <2>4
  <1> QED BY <1>7, <1>8

\* In that graph a principal is one of the payload, and it edits the lead and its
\* email precisely if its file says so. An end of a grant is stored.
LEMMA GrantsOf ==
    ASSUME NEW p \in AllPayloads
    PROVE  /\ \A n : n \in Graph(p).nodes /\ n.type \in Principals
                        <=> n \in {Admin, Viewer} /\ n \in p.nodes
           /\ \A n \in {Admin, Viewer} :
                 /\ Edge(n, "GRANTS_OBJECT", Lead) \in Graph(p).edges <=> MayEditObject(p, n)
                 /\ Edge(n, "GRANTS_OBJECT", Lead) \in Graph(p).edges => Lead \in Graph(p).nodes
                 /\ Edge(n, "GRANTS_FIELD", Email) \in Graph(p).edges
                        <=> n \in p.nodes /\ GrantsField(p, n)
                 /\ Edge(n, "GRANTS_FIELD", Email) \in Graph(p).edges => Email \in Graph(p).nodes
  <1>1. /\ Lead.type \notin Principals /\ Email.type \notin Principals /\ Page.type \notin Principals
        /\ Admin.type \in Principals /\ Viewer.type \in Principals
    BY DEF Lead, Email, Page, Admin, Viewer, Principals
  <1>2. p.nodes \subseteq {Lead, Email, Admin, Viewer, Page}
    BY DEF AllPayloads, Nodes
  <1>3. ASSUME NEW n \in Graph(p).nodes, n.type \in Principals
        PROVE  n \in {Admin, Viewer} /\ n \in p.nodes
    <2>1. n # Lead /\ n # Email /\ n # Page
      BY <1>1, <1>3
    <2>2. n \in p.nodes
      BY <2>1, GraphHolds
    <2> QED BY <1>2, <2>1, <2>2
  <1>4. ASSUME NEW n \in {Admin, Viewer}, n \in p.nodes
        PROVE  n \in Graph(p).nodes /\ n.type \in Principals
    BY <1>1, <1>4, GraphHolds
  <1>5. ASSUME NEW n \in {Admin, Viewer}
        PROVE  Edge(n, "GRANTS_OBJECT", Lead) \in Graph(p).edges <=> MayEditObject(p, n)
    <2>1. \A m : /\ Edge(m, "GRANTS_OBJECT", Lead) = Edge(n, "GRANTS_OBJECT", Lead) => m = n
                 /\ Edge(m, "GRANTS_FIELD", Email) # Edge(n, "GRANTS_OBJECT", Lead)
      BY DEF Edge
    <2>2. PICK e : e = Edge(n, "GRANTS_OBJECT", Lead)
      OBVIOUS
    <2>3. e \in Graph(p).edges <=> n \in p.nodes /\ GrantsObject(p, n)
      BY <2>1, <2>2, GraphHolds
    <2> QED BY <2>2, <2>3 DEF MayEditObject, GrantsObject
  <1>6. ASSUME NEW n \in {Admin, Viewer}
        PROVE  Edge(n, "GRANTS_FIELD", Email) \in Graph(p).edges <=> n \in p.nodes /\ GrantsField(p, n)
    <2>1. \A m : /\ Edge(m, "GRANTS_FIELD", Email) = Edge(n, "GRANTS_FIELD", Email) => m = n
                 /\ Edge(m, "GRANTS_OBJECT", Lead) # Edge(n, "GRANTS_FIELD", Email)
      BY DEF Edge
    <2>2. PICK e : e = Edge(n, "GRANTS_FIELD", Email)
      OBVIOUS
    <2>3. e \in Graph(p).edges <=> n \in p.nodes /\ GrantsField(p, n)
      BY <2>1, <2>2, GraphHolds
    <2> QED BY <2>2, <2>3
  <1>7. ASSUME NEW n \in {Admin, Viewer}, Edge(n, "GRANTS_OBJECT", Lead) \in Graph(p).edges
        PROVE  Lead \in Graph(p).nodes
    <2>1. n \in p.nodes /\ GrantsObject(p, n)
      BY <1>5, <1>7 DEF MayEditObject, GrantsObject
    <2> QED BY <2>1, GraphHolds
  <1>8. ASSUME NEW n \in {Admin, Viewer}, Edge(n, "GRANTS_FIELD", Email) \in Graph(p).edges
        PROVE  Email \in Graph(p).nodes
    <2>1. n \in p.nodes /\ GrantsField(p, n)
      BY <1>6, <1>8
    <2>2. \E m \in {Admin, Viewer} :
              m \in p.nodes /\ ((GrantsObject(p, m) /\ Email = Lead) \/ (GrantsField(p, m) /\ Email = Email))
      <3> WITNESS n \in {Admin, Viewer}
      <3> QED BY <2>1
    <2>3. PICK email : email = Email
      OBVIOUS
    <2>4. \E m \in {Admin, Viewer} :
              m \in p.nodes /\ ((GrantsObject(p, m) /\ email = Lead) \/ (GrantsField(p, m) /\ email = Email))
      BY <2>2, <2>3
    <2>5. email \in Graph(p).nodes
      BY <2>4, GraphHolds
    <2> QED BY <2>3, <2>5
  <1> QED BY <1>3, <1>4, <1>5, <1>6, <1>7, <1>8

\* It is a graph, so that the stores agree on it.
LEMMA GraphIsGraph ==
    ASSUME NEW p \in AllPayloads
    PROVE  IsGraph(Graph(p), {n.type : n \in Nodes}, {n.name : n \in Nodes},
                   {"GRANTS_OBJECT", "GRANTS_FIELD"})
  <1> DEFINE Types == {n.type : n \in Nodes}
             Names == {n.name : n \in Nodes}
             Rels2 == {"GRANTS_OBJECT", "GRANTS_FIELD"}
  <1>1. {Lead, Email, Admin, Viewer} \subseteq Nodes /\ p.nodes \subseteq Nodes
    BY DEF Nodes, AllPayloads
  <1>2. Nodes \subseteq [type : Types, name : Names]
    <2>1. \A n \in Nodes : n = [type |-> n.type, name |-> n.name]
      BY DEF Nodes, Lead, Email, Admin, Viewer, Page
    <2> QED BY <2>1
  <1> HIDE DEF Types, Names
  <1>3. Graph(p).nodes \subseteq Nodes
    BY <1>1, GraphHolds
  <1>4. ASSUME NEW e \in Graph(p).edges
        PROVE  e \in [src : [type : Types, name : Names], rel : Rels2, dst : [type : Types, name : Names]]
    <2>1. PICK n \in {Admin, Viewer} :
            e = Edge(n, "GRANTS_OBJECT", Lead) \/ e = Edge(n, "GRANTS_FIELD", Email)
      BY <1>4, GraphHolds
    <2>2. n \in Nodes /\ Lead \in Nodes /\ Email \in Nodes
      BY <1>1
    <2> QED BY <1>2, <2>1, <2>2 DEF Edge
  <1> QED BY <1>2, <1>3, <1>4 DEF IsGraph, Types, Names

\* A field is editable to one of the user's principals precisely if the files of
\* the second payload let that one edit it, and the object one of them that edits
\* it in the first.
LEMMA PathsOf ==
    ASSUME NEW p \in AllPayloads, NEW names, NEW store \in {"sqlite", "postgres"}
    PROVE  /\ {x.principal : x \in findFieldPermPaths(store, Graph(p), names, "Lead", "Lead.Email")}
                  = {n.name : n \in {n \in {Admin, Viewer} : n.name \in names /\ MayEditField(p, n)}}
           /\ findObjectPermPaths(store, Graph(p), names, "Lead") # {}
                  <=> \E n \in {Admin, Viewer} : n.name \in names /\ MayEditObject(p, n)
  <1>1. PICK g : g = Graph(p)
    OBVIOUS
  <1>2. PICK Types, Names, Rels2 : IsGraph(g, Types, Names, Rels2)
    BY <1>1, GraphIsGraph
  <1>3. \A n : n \in findPrincipals(g, names)
                <=> n \in {Admin, Viewer} /\ n \in p.nodes /\ n.name \in names
    BY <1>1, GrantsOf DEF findPrincipals
  <1>4. findNode(g, "Object", "Lead") \subseteq {Lead} /\ findNode(g, "Field", "Lead.Email") \subseteq {Email}
    BY <1>2 DEF findNode, IsGraph, Lead, Email
  <1>5. /\ Lead \in g.nodes => Lead \in findNode(g, "Object", "Lead")
        /\ Email \in g.nodes => Email \in findNode(g, "Field", "Lead.Email")
    BY DEF findNode, Lead, Email
  <1>6. \A n \in {Admin, Viewer} :
            (\E o \in findNode(g, "Object", "Lead") : hasGrant(g, n, o, "GRANTS_OBJECT"))
                <=> MayEditObject(p, n)
    <2>1. TAKE n \in {Admin, Viewer}
    <2>2. ASSUME NEW o \in findNode(g, "Object", "Lead"), hasGrant(g, n, o, "GRANTS_OBJECT")
          PROVE  MayEditObject(p, n)
      BY <1>1, <1>4, <2>2, GrantsOf DEF hasGrant
    <2>3. ASSUME MayEditObject(p, n)
          PROVE  \E o \in findNode(g, "Object", "Lead") : hasGrant(g, n, o, "GRANTS_OBJECT")
      <3>1. Edge(n, "GRANTS_OBJECT", Lead) \in g.edges /\ Lead \in g.nodes
        BY <1>1, <2>3, GrantsOf
      <3> QED BY <1>5, <3>1 DEF hasGrant
    <2> QED BY <2>2, <2>3
  <1>7. \A n \in {Admin, Viewer} :
            (\E o \in findNode(g, "Object", "Lead"), f \in findNode(g, "Field", "Lead.Email") :
                hasGrant(g, n, o, "GRANTS_OBJECT") /\ hasGrant(g, n, f, "GRANTS_FIELD"))
                <=> MayEditField(p, n)
    <2>1. TAKE n \in {Admin, Viewer}
    <2>2. ASSUME NEW o \in findNode(g, "Object", "Lead"), NEW f \in findNode(g, "Field", "Lead.Email"),
                 hasGrant(g, n, o, "GRANTS_OBJECT"), hasGrant(g, n, f, "GRANTS_FIELD")
          PROVE  MayEditField(p, n)
      <3>1. Edge(n, "GRANTS_OBJECT", Lead) \in g.edges /\ Edge(n, "GRANTS_FIELD", Email) \in g.edges
        BY <1>4, <2>2 DEF hasGrant
      <3>2. MayEditObject(p, n) /\ GrantsField(p, n)
        BY <1>1, <3>1, GrantsOf
      <3> QED BY <3>2 DEF MayEditField, GrantsField
    <2>3. ASSUME MayEditField(p, n)
          PROVE  \E o \in findNode(g, "Object", "Lead"), f \in findNode(g, "Field", "Lead.Email") :
                    hasGrant(g, n, o, "GRANTS_OBJECT") /\ hasGrant(g, n, f, "GRANTS_FIELD")
      <3>1. MayEditObject(p, n) /\ GrantsField(p, n) /\ n \in p.nodes
        BY <2>3 DEF MayEditField, MayEditObject, GrantsField
      <3>2. /\ Edge(n, "GRANTS_OBJECT", Lead) \in g.edges /\ Lead \in g.nodes
            /\ Edge(n, "GRANTS_FIELD", Email) \in g.edges /\ Email \in g.nodes
        BY <1>1, <3>1, GrantsOf
      <3> QED BY <1>5, <3>2 DEF hasGrant
    <2> QED BY <2>2, <2>3
  <1>8. ASSUME NEW n, n \in {Admin, Viewer}
        PROVE  MayEditField(p, n) => MayEditObject(p, n) /\ n \in p.nodes
    BY DEF MayEditField, MayEditObject
  <1>9. \A n \in {Admin, Viewer} : MayEditObject(p, n) => n \in p.nodes
    BY DEF MayEditObject
  <1> DEFINE editors == {n \in {Admin, Viewer} : n.name \in names /\ MayEditField(p, n)}
  <1>10. sqliteFieldPaths(g, names, "Lead", "Lead.Email")
            = {FieldPath(n.name, "Lead", "Lead.Email") : n \in editors}
    <2>1. {n \in findPrincipals(g, names) :
              \E o \in findNode(g, "Object", "Lead"), f \in findNode(g, "Field", "Lead.Email") :
                  /\ hasGrant(g, n, o, "GRANTS_OBJECT")
                  /\ hasGrant(g, n, f, "GRANTS_FIELD")} = editors
      BY <1>3, <1>7, <1>8
    <2> QED BY <2>1 DEF sqliteFieldPaths
  <1>11. sqliteGrantPaths(g, names, "GRANTS_OBJECT", "Object", "Lead") # {}
            <=> \E n \in {Admin, Viewer} : n.name \in names /\ MayEditObject(p, n)
    <2>1. sqliteGrantPaths(g, names, "GRANTS_OBJECT", "Object", "Lead") # {}
            <=> \E n \in findPrincipals(g, names) :
                  \E o \in findNode(g, "Object", "Lead") : hasGrant(g, n, o, "GRANTS_OBJECT")
      BY DEF sqliteGrantPaths
    <2> QED BY <1>3, <1>6, <1>9, <2>1
  <1>12. names = {} => editors = {}
    OBVIOUS
  <1>13. findFieldPermPaths("sqlite", g, names, "Lead", "Lead.Email")
            = {FieldPath(n.name, "Lead", "Lead.Email") : n \in editors}
    BY <1>10, <1>12 DEF findFieldPermPaths
  <1>14. findObjectPermPaths("sqlite", g, names, "Lead") # {}
            <=> \E n \in {Admin, Viewer} : n.name \in names /\ MayEditObject(p, n)
    BY <1>11 DEF findObjectPermPaths, grantPaths
  <1>15. /\ findFieldPermPaths(store, g, names, "Lead", "Lead.Email")
                = findFieldPermPaths("sqlite", g, names, "Lead", "Lead.Email")
         /\ findObjectPermPaths(store, g, names, "Lead") = findObjectPermPaths("sqlite", g, names, "Lead")
    BY <1>2, StoresAgreeOnQueries
  <1>16. \A n : FieldPath(n.name, "Lead", "Lead.Email").principal = n.name
    BY DEF FieldPath
  <1>17. PICK found : found = findFieldPermPaths(store, g, names, "Lead", "Lead.Email")
    OBVIOUS
  <1> HIDE DEF editors
  <1>18. {x.principal : x \in found} = {n.name : n \in editors}
    BY <1>13, <1>15, <1>16, <1>17
  <1> QED BY <1>1, <1>14, <1>15, <1>17, <1>18 DEF editors

\* Every "can edit" of GET /perms is in a permission file, for one principal of the
\* user, also when a refresh replaced the graph between the two queries, and without
\* a refresh no grant of a file is missed; from either store, and never without a map
\* (permissions-parser.service.ts, the graph stores, queries.service.ts).
THEOREM GrantsTraceable == Spec => []GrantIsTraceable
  <1>1. DriftInvariant => GrantIsTraceable
    <2> SUFFICES ASSUME DriftInvariant,
                        NEW map \in {Mapped, Torn}, NEW user \in Users, NEW store \in {"sqlite", "postgres"}
                 PROVE  LET names == principalsChecked(map, user)
                            answer == fieldPerms(store, Graph(previous), Graph(current), names, "Lead", "Lead.Email")
                            editors(p) == {n \in {Admin, Viewer} : n.name \in names /\ MayEditField(p, n)}
                        IN  /\ answer.granted =>
                                /\ mappingStatus(map, user) = "resolved"
                                /\ {x.principal : x \in answer.paths} = {n.name : n \in editors(current)}
                                /\ editors(current) # {}
                                /\ \E n \in {Admin, Viewer} : n.name \in names /\ MayEditObject(previous, n)
                            /\ previous = current => (answer.granted <=> editors(current) # {})
      BY Zenon DEF GrantIsTraceable
    <2>1. PICK names, answer, editors :
              /\ names = principalsChecked(map, user)
              /\ answer = fieldPerms(store, Graph(previous), Graph(current), names, "Lead", "Lead.Email")
              /\ editors = {n \in {Admin, Viewer} : n.name \in names /\ MayEditField(current, n)}
      OBVIOUS
    <2>2. previous \in AllPayloads /\ current \in AllPayloads
      BY DEF DriftInvariant
    <2>3. PICK object, paths :
              /\ object = (findObjectPermPaths(store, Graph(previous), names, "Lead") # {})
              /\ paths = findFieldPermPaths(store, Graph(current), names, "Lead", "Lead.Email")
      OBVIOUS
    <2>4. answer = Verdict(object, object /\ paths # {}, paths)
      BY <2>1, <2>3 DEF fieldPerms
    <2>5. answer.granted <=> object /\ paths # {}
      BY <2>4 DEF Verdict
    <2>6. answer.granted => answer.paths = paths
      BY <2>4, <2>5 DEF Verdict
    <2>7. {x.principal : x \in paths} = {n.name : n \in editors}
      BY <2>1, <2>2, <2>3, PathsOf
    <2>8. object <=> \E n \in {Admin, Viewer} : n.name \in names /\ MayEditObject(previous, n)
      BY <2>2, <2>3, PathsOf
    <2>9. paths # {} <=> editors # {}
      BY <2>7
    <2>10. editors # {} => names # {}
      BY <2>1
    <2>11. map.exists
      BY <2>1 DEF Mapped, Torn
    <2>12. names # {} => mappingStatus(map, user) = "resolved"
      BY <2>1, <2>11 DEF mappingStatus
    <2>13. ASSUME previous = current, editors # {} PROVE object
      BY <2>1, <2>8, <2>13 DEF MayEditField
    <2>14. /\ answer.granted =>
                /\ mappingStatus(map, user) = "resolved"
                /\ {x.principal : x \in answer.paths} = {n.name : n \in editors}
                /\ editors # {}
                /\ \E n \in {Admin, Viewer} : n.name \in names /\ MayEditObject(previous, n)
           /\ previous = current => (answer.granted <=> editors # {})
      BY <2>5, <2>6, <2>7, <2>8, <2>9, <2>10, <2>12, <2>13
    <2> QED BY <2>1, <2>14
  <1> QED BY <1>1, PayloadsDrift, PTL

------------------------------------------------------------------------------
(* The verdict.  A domain observes the net changes of its types, one by    *)
(* one: those that do not change are in no table and count nothing.        *)

LEMMA NetIsDifference ==
    ASSUME NEW S, IsFiniteSet(S), NEW T, IsFiniteSet(T)
    PROVE  Net(S, T) = Cardinality(T) - Cardinality(S)
  <1>1. /\ Cardinality(S) \in Nat /\ Cardinality(T) \in Nat /\ Cardinality(S \cap T) \in Nat
        /\ Cardinality(T \ S) = Cardinality(T) - Cardinality(T \cap S)
        /\ Cardinality(S \ T) = Cardinality(S) - Cardinality(S \cap T)
    BY FS_Difference, FS_Intersection, FS_CardinalityType
  <1>2. T \cap S = S \cap T
    OBVIOUS
  <1>3. Cardinality(T \cap S) = Cardinality(S \cap T)
    BY <1>2
  <1>4. \A a, b, c \in Nat : (b - c) - (a - c) = b - a
    OBVIOUS
  <1>5. Net(S, T) = (Cardinality(T) - Cardinality(S \cap T)) - (Cardinality(S) - Cardinality(S \cap T))
    BY <1>1, <1>3 DEF Net
  <1> QED BY <1>1, <1>4, <1>5

CountIn(counts, key) == IF key \in DOMAIN counts THEN counts[key] ELSE 0

LEMMA DriftOfKeys ==
    ASSUME NEW before, NEW after, Counts(before), Counts(after),
           NEW all, IsFiniteSet(all), DOMAIN before \subseteq all, DOMAIN after \subseteq all,
           NEW magnitudes,
           \A key \in all : magnitudes[key] = Abs(CountIn(after, key) - CountIn(before, key)),
           NEW deltas, deltas = diffCounts(before, after),
           NEW keys, NEW chosen, chosen \subseteq all,
           keys \cap DOMAIN deltas = chosen \cap DOMAIN deltas
    PROVE  AbsoluteSum(deltas, keys) = SumFunctionOnSet(magnitudes, chosen)
  <1>1. \A key : CountIn(before, key) \in Int /\ CountIn(after, key) \in Int
    BY DEF Counts, CountIn
  <1>2. deltas = [key \in {k \in DOMAIN before \cup DOMAIN after :
                              CountIn(after, k) - CountIn(before, k) # 0}
                     |-> CountIn(after, key) - CountIn(before, key)]
    BY DEF diffCounts, CountIn
  <1>3. \A key \in all : key \in DOMAIN deltas <=> CountIn(after, key) - CountIn(before, key) # 0
    <2>1. \A key : key \notin DOMAIN before \cup DOMAIN after =>
              CountIn(after, key) - CountIn(before, key) = 0
      BY DEF CountIn
    <2> QED BY <1>2, <2>1
  <1>4. \A key \in DOMAIN deltas : deltas[key] = CountIn(after, key) - CountIn(before, key)
    BY <1>2
  <1>5. PICK m : m = [key \in DOMAIN deltas |-> IF deltas[key] < 0 THEN -deltas[key] ELSE deltas[key]]
    OBVIOUS
  <1>6. AbsoluteSum(deltas, keys) = SumFunctionOnSet(m, DOMAIN deltas \cap keys)
    BY <1>5 DEF AbsoluteSum
  <1>7. \A key \in DOMAIN deltas \cap keys : m[key] = magnitudes[key] /\ magnitudes[key] \in Nat
    BY <1>1, <1>4, <1>5 DEF Abs
  <1>8. \A key \in chosen \ (DOMAIN deltas \cap keys) : magnitudes[key] = 0
    BY <1>1, <1>3 DEF Abs
  <1>9. IsFiniteSet(chosen) /\ DOMAIN deltas \cap keys \subseteq chosen
    BY FS_Subset
  <1> QED BY <1>6, <1>7, <1>8, <1>9, SumsAgree

\* The tables count what there is of a type or a relation.
LEMMA CountsAreExact ==
    ASSUME NEW p, IsPayload(p)
    PROVE  /\ \A t : CountIn(nodeTypeCounts(p), t) = Cardinality({n \in p.nodes : n.type = t})
           /\ \A r : CountIn(relationCounts(p), r) = Cardinality({e \in p.edges : e.rel = r})
  <1>1. ASSUME NEW t
        PROVE  CountIn(nodeTypeCounts(p), t) = Cardinality({n \in p.nodes : n.type = t})
    <2>1. CASE t \in {n.type : n \in p.nodes}
      BY <2>1 DEF CountIn, nodeTypeCounts
    <2>2. CASE t \notin {n.type : n \in p.nodes}
      <3>1. {n \in p.nodes : n.type = t} = {}
        BY <2>2
      <3> QED BY <2>2, <3>1, FS_EmptySet DEF CountIn, nodeTypeCounts
    <2> QED BY <2>1, <2>2
  <1>2. ASSUME NEW r
        PROVE  CountIn(relationCounts(p), r) = Cardinality({e \in p.edges : e.rel = r})
    <2>1. CASE r \in {e.rel : e \in p.edges}
      BY <2>1 DEF CountIn, relationCounts
    <2>2. CASE r \notin {e.rel : e \in p.edges}
      <3>1. {e \in p.edges : e.rel = r} = {}
        BY <2>2
      <3> QED BY <2>2, <3>1, FS_EmptySet DEF CountIn, relationCounts
    <2> QED BY <2>1, <2>2
  <1> QED BY <1>1, <1>2

LEMMA NetsAreDeltas ==
    ASSUME IsPayload(previous), IsPayload(current)
    PROVE  /\ \A t : NetOfType(t) = CountIn(nodeTypeCounts(current), t) - CountIn(nodeTypeCounts(previous), t)
           /\ \A r : NetOfRel(r) = CountIn(relationCounts(current), r) - CountIn(relationCounts(previous), r)
           /\ Net(previous.nodes, current.nodes) = Cardinality(current.nodes) - Cardinality(previous.nodes)
           /\ Net(previous.edges, current.edges) = Cardinality(current.edges) - Cardinality(previous.edges)
  <1>1. ASSUME NEW p, IsPayload(p)
        PROVE  /\ \A t : IsFiniteSet({n \in p.nodes : n.type = t})
               /\ \A r : IsFiniteSet({e \in p.edges : e.rel = r})
    <2>1. ASSUME NEW t PROVE IsFiniteSet({n \in p.nodes : n.type = t})
      <3>1. {n \in p.nodes : n.type = t} \in SUBSET p.nodes
        OBVIOUS
      <3> QED BY <1>1, <3>1, FS_Subset DEF IsPayload
    <2>2. ASSUME NEW r PROVE IsFiniteSet({e \in p.edges : e.rel = r})
      <3>1. {e \in p.edges : e.rel = r} \in SUBSET p.edges
        OBVIOUS
      <3> QED BY <1>1, <3>1, FS_Subset DEF IsPayload
    <2> QED BY <2>1, <2>2
  <1>2. \A t : NetOfType(t) = Cardinality({n \in current.nodes : n.type = t})
                                - Cardinality({n \in previous.nodes : n.type = t})
    BY <1>1, NetIsDifference DEF NetOfType
  <1>3. \A r : NetOfRel(r) = Cardinality({e \in current.edges : e.rel = r})
                               - Cardinality({e \in previous.edges : e.rel = r})
    BY <1>1, NetIsDifference DEF NetOfRel
  <1>4. /\ Net(previous.nodes, current.nodes) = Cardinality(current.nodes) - Cardinality(previous.nodes)
        /\ Net(previous.edges, current.edges) = Cardinality(current.edges) - Cardinality(previous.edges)
    BY NetIsDifference DEF IsPayload
  <1>5. /\ \A t : CountIn(nodeTypeCounts(current), t) = Cardinality({n \in current.nodes : n.type = t})
        /\ \A t : CountIn(nodeTypeCounts(previous), t) = Cardinality({n \in previous.nodes : n.type = t})
        /\ \A r : CountIn(relationCounts(current), r) = Cardinality({e \in current.edges : e.rel = r})
        /\ \A r : CountIn(relationCounts(previous), r) = Cardinality({e \in previous.edges : e.rel = r})
    BY CountsAreExact
  <1>6. ASSUME NEW t
        PROVE  NetOfType(t) = CountIn(nodeTypeCounts(current), t) - CountIn(nodeTypeCounts(previous), t)
    BY <1>2, <1>5, Zenon
  <1>7. ASSUME NEW r
        PROVE  NetOfRel(r) = CountIn(relationCounts(current), r) - CountIn(relationCounts(previous), r)
    BY <1>3, <1>5, Zenon
  <1> QED BY <1>4, <1>6, <1>7

LEMMA TypesOfNodes ==
    /\ NodeTypes = {"Object", "Field", "Profile", "PermissionSet", "ApexPage"}
    /\ IsFiniteSet(NodeTypes) /\ IsFiniteSet(Rels)
  <1>1. NodeTypes = {"Object", "Field", "Profile", "PermissionSet", "ApexPage"}
    BY DEF NodeTypes, Nodes, Lead, Email, Admin, Viewer, Page
  <1>2. Rels = {"GRANTS_OBJECT", "GRANTS_FIELD", "WRITES"}
    BY DEF Rels, Edges
  <1>3. \A x : IsFiniteSet({x})
    BY FS_Singleton
  <1>4. IsFiniteSet({"Object"} \cup ({"Field"} \cup ({"Profile"} \cup ({"PermissionSet"} \cup {"ApexPage"}))))
    BY <1>3, FS_Union
  <1>5. IsFiniteSet({"GRANTS_OBJECT"} \cup ({"GRANTS_FIELD"} \cup {"WRITES"}))
    BY <1>3, FS_Union
  <1>6. IsFiniteSet(NodeTypes)
    BY <1>1, <1>4
  <1>7. IsFiniteSet(Rels)
    BY <1>2, <1>5
  <1> QED BY <1>1, <1>6, <1>7

\* Whatever the budgets and the allow-lists, the verdict is the one of the reference:
\* no change of a type or relation is missed or counted twice, and what one domain
\* allows another does not pay for (semantic-drift-policy.service.ts, 143-267).
THEOREM VerdictAsConfigured == Spec => []VerdictIsReference
  <1>1. DriftInvariant => VerdictIsReference
    <2>1. SUFFICES ASSUME DriftInvariant PROVE VerdictIsReference
      OBVIOUS
    <2>2. IsPayload(previous) /\ IsPayload(current)
      BY <2>1, PayloadsAreFinite DEF DriftInvariant
    <2>3. PICK s, t, diff :
              s = Snap(1, previous) /\ t = Snap(2, current) /\ diff = computeSemanticDiff(s, t)
      OBVIOUS
    <2>4. s # NoSnapshot /\ s.payload = previous /\ t.payload = current
      BY <2>3, SnapshotsOf
    <2>5. PICK types, rels, typesBefore, typesAfter, relsBefore, relsAfter :
              /\ types = diff.changedNodeTypeCounts /\ rels = diff.changedRelationCounts
              /\ typesBefore = nodeTypeCounts(previous) /\ typesAfter = nodeTypeCounts(current)
              /\ relsBefore = relationCounts(previous) /\ relsAfter = relationCounts(current)
      OBVIOUS
    <2>6. /\ types = diffCounts(typesBefore, typesAfter) /\ rels = diffCounts(relsBefore, relsAfter)
          /\ diff.nodeDelta = Cardinality(current.nodes) - Cardinality(previous.nodes)
          /\ diff.edgeDelta = Cardinality(current.edges) - Cardinality(previous.edges)
      BY <2>3, <2>4, <2>5, DifferenceIs
    <2>7. Counts(typesBefore) /\ Counts(typesAfter) /\ Counts(relsBefore) /\ Counts(relsAfter)
      BY <2>2, <2>5, CountsAreNumbers
    <2>8. /\ DOMAIN typesBefore \subseteq NodeTypes /\ DOMAIN typesAfter \subseteq NodeTypes
          /\ DOMAIN relsBefore \subseteq Rels /\ DOMAIN relsAfter \subseteq Rels
      BY <2>1, <2>5 DEF DriftInvariant, AllPayloads, nodeTypeCounts, relationCounts, NodeTypes, Rels
    <2>9. IsFiniteSet(NodeTypes) /\ IsFiniteSet(Rels)
      BY TypesOfNodes
    <2>10. PICK ofType, ofRel :
              /\ ofType = [y \in NodeTypes |-> Abs(NetOfType(y))]
              /\ ofRel = [r \in Rels |-> Abs(NetOfRel(r))]
      OBVIOUS
    <2>11. \A y \in NodeTypes : ofType[y] = Abs(CountIn(typesAfter, y) - CountIn(typesBefore, y))
      BY <2>2, <2>5, <2>10, NetsAreDeltas
    <2>12. \A r \in Rels : ofRel[r] = Abs(CountIn(relsAfter, r) - CountIn(relsBefore, r))
      BY <2>2, <2>5, <2>10, NetsAreDeltas
    <2>13. DOMAIN types \subseteq NodeTypes /\ DOMAIN rels \subseteq Rels
      BY <2>6, <2>8 DEF diffCounts
    <2>14. ASSUME NEW domain, NEW chosen, chosen \subseteq NodeTypes, domain \cap NodeTypes = chosen
           PROVE  AbsoluteSum(types, domain \cap (DOMAIN types \ AllowedNodeTypes)) = NodeDrift(chosen)
      <3>1. PICK keys, free :
                keys = domain \cap (DOMAIN types \ AllowedNodeTypes) /\ free = chosen \ AllowedNodeTypes
        OBVIOUS
      <3>2. keys \cap DOMAIN types = free \cap DOMAIN types /\ free \subseteq NodeTypes
        BY <2>13, <2>14, <3>1
      <3>3. AbsoluteSum(types, keys) = SumFunctionOnSet(ofType, free)
        BY <2>6, <2>7, <2>8, <2>9, <2>11, <3>2, DriftOfKeys
      <3> QED BY <2>10, <3>1, <3>3 DEF NodeDrift
    <2>15. AbsoluteSum(rels, DOMAIN rels \ AllowedRelations) = RelationDrift
      <3>1. PICK keys, free :
                keys = DOMAIN rels \ AllowedRelations /\ free = Rels \ AllowedRelations
        OBVIOUS
      <3>2. keys \cap DOMAIN rels = free \cap DOMAIN rels /\ free \subseteq Rels
        BY <2>13, <3>1
      <3>3. AbsoluteSum(rels, keys) = SumFunctionOnSet(ofRel, free)
        BY <2>6, <2>7, <2>8, <2>9, <2>12, <3>2, DriftOfKeys
      <3> QED BY <2>10, <3>1, <3>3 DEF RelationDrift
    <2>16. /\ AbsoluteSum(types, {"Object"} \cap (DOMAIN types \ AllowedNodeTypes)) = NodeDrift({"Object"})
           /\ AbsoluteSum(types, {"Field"} \cap (DOMAIN types \ AllowedNodeTypes)) = NodeDrift({"Field"})
           /\ AbsoluteSum(types, POLICY_NODE_TYPES \cap (DOMAIN types \ AllowedNodeTypes))
                = NodeDrift({"Profile", "PermissionSet"})
           /\ AbsoluteSum(types, AUTOMATION_NODE_TYPES \cap (DOMAIN types \ AllowedNodeTypes)) = NodeDrift({})
           /\ AbsoluteSum(types, UI_NODE_TYPES \cap (DOMAIN types \ AllowedNodeTypes)) = NodeDrift({"ApexPage"})
      <3>1. /\ {"Object"} \cap NodeTypes = {"Object"} /\ {"Field"} \cap NodeTypes = {"Field"}
            /\ POLICY_NODE_TYPES \cap NodeTypes = {"Profile", "PermissionSet"}
            /\ AUTOMATION_NODE_TYPES \cap NodeTypes = {}
            /\ UI_NODE_TYPES \cap NodeTypes = {"ApexPage"}
            /\ {"Object", "Field", "Profile", "PermissionSet", "ApexPage"} \subseteq NodeTypes
        BY TypesOfNodes DEF POLICY_NODE_TYPES, AUTOMATION_NODE_TYPES, UI_NODE_TYPES
      <3> QED BY <2>14, <3>1
    <2>17. NodeDrift({}) = 0
      <3>1. \A k \in {} \ AllowedNodeTypes : ofType[k] \in Nat
        OBVIOUS
      <3>2. {} \ AllowedNodeTypes = {} /\ Pairs(ofType, {}) = {}
        BY DEF Pairs
      <3>3. SumFunctionOnSet(ofType, {}) = Cardinality(Pairs(ofType, {}))
        BY FS_EmptySet, SumCounts
      <3> QED BY <2>10, <3>2, <3>3, FS_EmptySet DEF NodeDrift
    <2>18. /\ (IF diff.nodeDelta < 0 THEN -diff.nodeDelta ELSE diff.nodeDelta)
                = Abs(Net(previous.nodes, current.nodes))
           /\ (IF diff.edgeDelta < 0 THEN -diff.edgeDelta ELSE diff.edgeDelta)
                = Abs(Net(previous.edges, current.edges))
      BY <2>2, <2>6, NetsAreDeltas DEF Abs
    <2>19. observed(diff) =
              [object |-> NodeDrift({"Object"}), field |-> NodeDrift({"Field"}), relation |-> RelationDrift,
               policy |-> NodeDrift({"Profile", "PermissionSet"}), automation |-> NodeDrift({}),
               ui |-> NodeDrift({"ApexPage"}),
               totalNode |-> Abs(Net(previous.nodes, current.nodes)),
               totalEdge |-> Abs(Net(previous.edges, current.edges))]
      BY <2>5, <2>15, <2>16, <2>18 DEF observed
    <2>20. PICK o : o = observed(diff)
      OBVIOUS
    <2>21. /\ o["object"] = NodeDrift({"Object"}) /\ o["field"] = NodeDrift({"Field"})
           /\ o["relation"] = RelationDrift /\ o["policy"] = NodeDrift({"Profile", "PermissionSet"})
           /\ o["automation"] = 0 /\ o["ui"] = NodeDrift({"ApexPage"})
           /\ o["totalNode"] = Abs(Net(previous.nodes, current.nodes))
           /\ o["totalEdge"] = Abs(Net(previous.edges, current.edges))
      BY <2>17, <2>19, <2>20
    <2>22. Judged(previous, current) <=> \A d \in Domains : ~(o[d] > Budgets[d])
      BY <2>3, <2>4, <2>20 DEF Judged, withinBudget, exceeded
    <2>23. /\ \A y \in NodeTypes : ofType[y] \in Nat
           /\ \A r \in Rels : ofRel[r] \in Nat
      <3>1. \A y : CountIn(typesAfter, y) \in Int /\ CountIn(typesBefore, y) \in Int
        BY <2>7 DEF Counts, CountIn
      <3>2. \A r : CountIn(relsAfter, r) \in Int /\ CountIn(relsBefore, r) \in Int
        BY <2>7 DEF Counts, CountIn
      <3>3. \A a, b \in Int : Abs(a - b) \in Nat
        BY DEF Abs
      <3> QED BY <2>11, <2>12, <3>1, <3>2, <3>3
    <2>24. ASSUME NEW f, NEW S, NEW free \in SUBSET S, IsFiniteSet(S), \A k \in S : f[k] \in Nat
           PROVE  SumFunctionOnSet(f, free) \in Nat
      BY <2>24, FS_Subset, SumCounts, PairsAreFinite
    <2>25. RelationDrift \in Nat
      BY <2>9, <2>10, <2>23, <2>24 DEF RelationDrift
    <2>26. \A chosen \in SUBSET NodeTypes : NodeDrift(chosen) \in Nat
      BY <2>9, <2>10, <2>23, <2>24 DEF NodeDrift
    <2>27. /\ NodeDrift({"Object"}) \in Nat /\ NodeDrift({"Field"}) \in Nat
           /\ NodeDrift({"Profile", "PermissionSet"}) \in Nat /\ NodeDrift({"ApexPage"}) \in Nat
      BY <2>26, TypesOfNodes
    <2>28. /\ Abs(Net(previous.nodes, current.nodes)) \in Int
           /\ Abs(Net(previous.edges, current.edges)) \in Int
      BY <2>2, CountsAreNumbers, NetsAreDeltas DEF Abs
    <2>29. \A d \in Domains : Budgets[d] \in Nat
      BY BudgetsAssumption
    <2>30. \A d \in Domains : o[d] \in Int
      BY <2>21, <2>25, <2>27, <2>28 DEF Domains
    <2>31. Judged(previous, current) <=> \A d \in Domains : o[d] <= Budgets[d]
      BY <2>22, <2>29, <2>30
    <2> QED BY <2>21, <2>29, <2>31 DEF VerdictIsReference, Domains
  <1> QED BY <1>1, PayloadsDrift, PTL
==============================================================================
