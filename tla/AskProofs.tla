------------------------------- MODULE AskProofs -------------------------------
(***************************************************************************)
(* Proofs about AskReplay, for every value of its constants.               *)
(*                                                                         *)
(* Lemmas about the operators of AskRules, then the invariant Held: every  *)
(* execution under way and every proof in the log is one that the stores   *)
(* could give, the present ones if none has changed since it began. The    *)
(* order in which Proven holds the two logs is inductive relative to it.   *)
(***************************************************************************)
EXTENDS AskReplay, FiniteSetTheorems, WellFoundedInduction, TLAPS

------------------------------------------------------------------------------
(* Sequences and numbers.                                                  *)

\* The last of a set of positions is one of them: of the intervals that begin at
\* them one is the least.
LEMMA LastPosition ==
    ASSUME NEW n \in Nat, NEW S, S \subseteq 1..n, S # {}
    PROVE  \E m \in S : \A i \in S : i <= m
  <1> DEFINE I == {i..n : i \in S}
             R == StrictSubsetOrdering(Nat)
  <1>1. I \subseteq FiniteSubsetsOf(Nat) /\ I # {}
    <2>1. \A i \in S : i..n \in SUBSET Nat /\ IsFiniteSet(i..n)
      BY FS_Interval
    <2> QED BY <2>1 DEF FiniteSubsetsOf
  <1>2. IsWellFoundedOn(R, FiniteSubsetsOf(Nat))
    BY FS_StrictSubsetOrderingWellFounded
  <1>3. PICK X \in I : \A Y \in I : <<Y, X>> \notin R
    <2> HIDE DEF I, R
    <2> QED BY <1>1, <1>2, WFMin
  <1>4. PICK m \in S : X = m..n
    OBVIOUS
  <1>5. ASSUME NEW i \in S, i > m PROVE FALSE
    <2>1. i..n \subseteq m..n /\ m \in m..n /\ m \notin i..n
      BY <1>5
    <2>2. <<i..n, X>> \in R
      BY <1>4, <2>1 DEF StrictSubsetOrdering
    <2> QED BY <1>3, <2>2
  <1> QED BY <1>5

\* The newest proof with the id of a line is a line of the log.
LEMMA FindsAProof ==
    ASSUME proofs \in Seq(Range(proofs)), NEW i \in DOMAIN proofs
    PROVE  findByProofId(i) \in DOMAIN proofs
  <1> DEFINE S == {j \in DOMAIN proofs : proofs[j].proofId = proofs[i].proofId}
  <1>1. DOMAIN proofs = 1..Len(proofs) /\ Len(proofs) \in Nat
    OBVIOUS
  <1>2. \E m \in S : \A k \in S : k <= m
    <2>1. S \subseteq 1..Len(proofs) /\ S # {}
      BY <1>1
    <2> HIDE DEF S
    <2> QED BY <1>1, <2>1, LastPosition
  <1>3. \E j \in DOMAIN proofs :
            /\ proofs[j].proofId = proofs[i].proofId
            /\ \A k \in DOMAIN proofs : proofs[k].proofId = proofs[i].proofId => k <= j
    BY <1>2
  <1> QED BY <1>3 DEF findByProofId

\* A log that grows by a line keeps those it had.
LEMMA LogGrows ==
    ASSUME NEW log, log \in Seq(Range(log)), NEW line
    PROVE  LET longer == Append(log, line)
           IN  /\ longer \in Seq(Range(longer))
               /\ Len(longer) = Len(log) + 1 /\ Len(log) \in Nat
               /\ DOMAIN longer = 1..Len(log) + 1 /\ DOMAIN log = 1..Len(log)
               /\ longer[Len(log) + 1] = line
               /\ \A i \in DOMAIN log : longer[i] = log[i]
  <1> DEFINE longer == Append(log, line)
             S == Range(log) \cup {line}
  <1>1. log \in Seq(S) /\ line \in S
    OBVIOUS
  <1> HIDE DEF S
  <1>2. /\ longer \in Seq(S)
        /\ Len(longer) = Len(log) + 1 /\ Len(log) \in Nat
        /\ DOMAIN longer = 1..Len(log) + 1 /\ DOMAIN log = 1..Len(log)
        /\ longer[Len(log) + 1] = line
        /\ \A i \in DOMAIN log : longer[i] = log[i]
    BY <1>1
  <1> HIDE DEF longer
  <1>3. longer \in Seq(Range(longer))
    BY <1>2 DEF Range
  <1> QED BY <1>2, <1>3 DEF longer

Distinct(left) == \A i, k \in DOMAIN left : left[i] = left[k] => i = k

\* Taking the first query leaves the others.
LEMMA TakesFirst ==
    ASSUME NEW S, NEW left \in Seq(S), left # <<>>,
           Distinct(left)
    PROVE  /\ Head(left) \in S /\ Tail(left) \in Seq(S)
           /\ Distinct(Tail(left))
           /\ Head(left) \notin Range(Tail(left))
           /\ Range(left) = Range(Tail(left)) \cup {Head(left)}
  <1>1. /\ Len(left) \in Nat \ {0} /\ DOMAIN left = 1..Len(left)
        /\ Head(left) = left[1] /\ Tail(left) \in Seq(S)
        /\ DOMAIN Tail(left) = 1..Len(left) - 1
        /\ \A i \in 1..Len(left) - 1 : Tail(left)[i] = left[i + 1]
    OBVIOUS
  <1>2. Head(left) \notin Range(Tail(left))
    BY <1>1 DEF Range, Distinct
  <1>3. Range(left) = Range(Tail(left)) \cup {Head(left)}
    <2>1. ASSUME NEW i \in DOMAIN left
          PROVE  left[i] \in Range(Tail(left)) \cup {Head(left)}
      <3>1. CASE i = 1
        BY <1>1, <3>1
      <3>2. CASE i # 1
        <4>1. i - 1 \in 1..Len(left) - 1 /\ Tail(left)[i - 1] = left[i]
          BY <1>1, <3>2
        <4> QED BY <1>1, <4>1 DEF Range
      <3> QED BY <3>1, <3>2
    <2>2. Range(Tail(left)) \cup {Head(left)} \subseteq Range(left)
      BY <1>1 DEF Range
    <2> QED BY <2>1, <2>2 DEF Range
  <1>4. Head(left) \in S
    BY <1>1
  <1>5. Distinct(Tail(left))
    BY <1>1 DEF Distinct
  <1> QED BY <1>1, <1>2, <1>3, <1>4, <1>5

\* A clamped number is between the bounds.
LEMMA Clamped ==
    ASSUME NEW x \in Int, NEW low \in Int, NEW high \in Int, low <= high
    PROVE  Clamp(x, low, high) \in low..high
  <1> DEFINE m == IF x <= high THEN x ELSE high
  <1>1. Min({high, x}) = m
    BY DEF Min
  <1>2. Max({low, m}) = IF low >= m THEN low ELSE m
    BY DEF Max
  <1> QED BY <1>1, <1>2 DEF Clamp

Bounded == 8000..12500

\* An adaptation keeps every multiplier between its bounds.
LEMMA Adapted ==
    ASSUME NEW rel \in Relations4, multipliers[rel] \in Int, metricsLog \in Seq(Records)
    PROVE  buildAdaptedContext[rel] \in Bounded
  <1> DEFINE sample == Max({1, Len(metricsLog)})
  <1>1. sample \in Nat \ {0}
    <2>1. Max({1, Len(metricsLog)}) = IF Len(metricsLog) >= 1 THEN Len(metricsLog) ELSE 1
      BY DEF Max
    <2> QED BY <2>1
  <1>2. ASSUME NEW kind PROVE Balance(kind) \in Int
    <2>1. ASSUME NEW trust
          PROVE  Cardinality({i \in DOMAIN metricsLog :
                    metricsLog[i] = [intent |-> kind, trustLevel |-> trust]}) \in Nat
      <3>1. IsFiniteSet(DOMAIN metricsLog)
        BY FS_Interval
      <3> QED BY <3>1, FS_Subset, FS_CardinalityType
    <2> QED BY <2>1 DEF Balance
  <1> HIDE DEF sample
  <1>3. ASSUME NEW kind, NEW share \in Int
        PROVE  adjust(multipliers[rel], Balance(kind), sample, share) \in Bounded
    <2> DEFINE step == Clamp(2 * Balance(kind), -sample, sample)
               turnover == Rounded(step * share, sample)
    <2>1. step \in Int
      <3>1. 2 * Balance(kind) \in Int
        BY <1>2
      <3>2. -sample \in Int /\ sample \in Int /\ -sample <= sample
        BY <1>1
      <3>3. step \in -sample..sample
        BY <3>1, <3>2, Clamped, Zenon
      <3> QED BY <3>2, <3>3
    <2>2. step * share \in Int
      BY <2>1
    <2>3. turnover \in Int
      <3> HIDE DEF step
      <3> DEFINE product == step * share
      <3>1. product \in Int
        BY <2>2
      <3> HIDE DEF product
      <3>2. (2 * product + sample) \div (2 * sample) \in Int
        BY <1>1, <3>1
      <3> QED BY <3>2 DEF Rounded, product
    <2> HIDE DEF turnover
    <2>4. Clamp(multipliers[rel] + turnover, 8000, 12500) \in Bounded
      <3> DEFINE next == multipliers[rel] + turnover
      <3>1. next \in Int
        BY <2>3
      <3> HIDE DEF next
      <3>2. PICK low \in Int, high \in Int : low = 8000 /\ high = 12500
        OBVIOUS
      <3>3. low <= high
        BY <3>2
      <3>4. Clamp(next, low, high) \in low..high
        BY <3>1, <3>3, Clamped, Zenon
      <3> QED BY <3>2, <3>4 DEF next, Bounded
    <2> QED BY <2>4 DEF adjust, turnover
  <1>4. CASE rel = "TRIGGERS_ON"
    <2>1. PICK share \in Int : share = 1000
      OBVIOUS
    <2>2. buildAdaptedContext[rel] =
            adjust(multipliers[rel], Balance("automation"), sample, share)
      BY <1>4, <2>1 DEF buildAdaptedContext, sample
    <2>3. adjust(multipliers[rel], Balance("automation"), sample, share) \in Bounded
      BY <1>3
    <2> QED BY <2>2, <2>3
  <1>5. CASE rel = "WRITES"
    <2>1. PICK share \in Int : share = 1000
      OBVIOUS
    <2>2. buildAdaptedContext[rel] = adjust(multipliers[rel], Balance("impact"), sample, share)
      BY <1>5, <2>1 DEF buildAdaptedContext, sample
    <2>3. adjust(multipliers[rel], Balance("impact"), sample, share) \in Bounded
      BY <1>3
    <2> QED BY <2>2, <2>3
  <1>6. CASE rel = "QUERIES"
    <2>1. PICK share \in Int : share = 800
      OBVIOUS
    <2>2. buildAdaptedContext[rel] = adjust(multipliers[rel], Balance("impact"), sample, share)
      BY <1>6, <2>1 DEF buildAdaptedContext, sample
    <2>3. adjust(multipliers[rel], Balance("impact"), sample, share) \in Bounded
      BY <1>3
    <2> QED BY <2>2, <2>3
  <1>7. CASE rel = "REFERENCES"
    <2>1. PICK share \in Int : share = 600
      OBVIOUS
    <2>2. buildAdaptedContext[rel] = adjust(multipliers[rel], Balance("impact"), sample, share)
      BY <1>7, <2>1 DEF buildAdaptedContext, sample
    <2>3. adjust(multipliers[rel], Balance("impact"), sample, share) \in Bounded
      BY <1>3
    <2> QED BY <2>2, <2>3
  <1> QED BY <1>4, <1>5, <1>6, <1>7 DEF Relations4

------------------------------------------------------------------------------
(* Queries and their answers.                                              *)

QueryNames == {"objectPerms", "fieldPerms", "automation", "impact", "verification"}

\* Two sequences that share no element, one after the other.
LEMMA JoinDistinct ==
    ASSUME NEW S, NEW s \in Seq(S), NEW t \in Seq(S), Distinct(s), Distinct(t),
           \A i \in DOMAIN s, k \in DOMAIN t : s[i] # t[k]
    PROVE  /\ s \o t \in Seq(S) /\ Distinct(s \o t)
           /\ Range(s \o t) \subseteq Range(s) \cup Range(t)
  <1> DEFINE joined == s \o t
  <1>1. /\ joined \in Seq(S) /\ Len(s) \in Nat /\ Len(t) \in Nat
        /\ DOMAIN s = 1..Len(s) /\ DOMAIN t = 1..Len(t)
        /\ DOMAIN joined = 1..Len(s) + Len(t)
        /\ \A i \in 1..Len(s) + Len(t) :
              joined[i] = IF i <= Len(s) THEN s[i] ELSE t[i - Len(s)]
    OBVIOUS
  <1> HIDE DEF joined
  <1>2. ASSUME NEW i \in DOMAIN joined, NEW k \in DOMAIN joined, joined[i] = joined[k]
        PROVE  i = k
    <2>1. CASE i <= Len(s) /\ k <= Len(s)
      BY <1>1, <1>2, <2>1 DEF Distinct
    <2>2. CASE i > Len(s) /\ k > Len(s)
      <3>1. i - Len(s) \in DOMAIN t /\ k - Len(s) \in DOMAIN t
        BY <1>1, <2>2
      <3>2. t[i - Len(s)] = t[k - Len(s)]
        BY <1>1, <1>2, <2>2
      <3>3. i - Len(s) = k - Len(s)
        BY <3>1, <3>2 DEF Distinct
      <3> QED BY <1>1, <3>3
    <2>3. CASE i <= Len(s) /\ k > Len(s)
      <3>1. i \in DOMAIN s /\ k - Len(s) \in DOMAIN t
        BY <1>1, <2>3
      <3> QED BY <1>1, <1>2, <2>3, <3>1
    <2>4. CASE i > Len(s) /\ k <= Len(s)
      <3>1. k \in DOMAIN s /\ i - Len(s) \in DOMAIN t
        BY <1>1, <2>4
      <3> QED BY <1>1, <1>2, <2>4, <3>1
    <2> QED BY <1>1, <2>1, <2>2, <2>3, <2>4
  <1>3. Range(joined) \subseteq Range(s) \cup Range(t)
    <2>1. ASSUME NEW i \in DOMAIN joined PROVE joined[i] \in Range(s) \cup Range(t)
      <3>1. CASE i <= Len(s)
        BY <1>1, <3>1 DEF Range
      <3>2. CASE i > Len(s)
        <4>1. i - Len(s) \in DOMAIN t /\ joined[i] = t[i - Len(s)]
          BY <1>1, <3>2
        <4> QED BY <4>1 DEF Range
      <3> QED BY <1>1, <3>1, <3>2
    <2> QED BY <2>1 DEF Range
  <1> QED BY <1>1, <1>2, <1>3 DEF Distinct, joined

Listed(left) == left \in Seq(QueryNames) /\ Distinct(left)

\* The graph queries that a branch waits for are different ones.
LEMMA QueriesDiffer ==
    ASSUME NEW branch, NEW q, NEW checks
    PROVE  Listed(Queries(branch, q, checks))
  <1>1. Listed(<<>>)
    BY DEF Distinct, Listed
  <1>2. /\ Listed(<<"automation">>) /\ Listed(<<"impact">>) /\ Listed(<<"impact", "verification">>)
        /\ Listed(<<"objectPerms">>) /\ Listed(<<"objectPerms", "fieldPerms">>)
    BY DEF QueryNames, Distinct, Listed
  <1>3. ASSUME NEW with
        PROVE  /\ Listed(permsQueries(with))
               /\ \A i \in DOMAIN permsQueries(with) :
                     permsQueries(with)[i] \in {"objectPerms", "fieldPerms"}
    BY <1>2 DEF permsQueries
  <1>4. ASSUME NEW with PROVE Listed(permsQueries(with) \o <<"impact">>)
    <2>1. \A i \in DOMAIN permsQueries(with), k \in DOMAIN <<"impact">> :
            permsQueries(with)[i] # <<"impact">>[k]
      BY <1>3
    <2> QED BY <1>2, <1>3, <2>1, JoinDistinct DEF Listed
  <1>5. ASSUME NEW with
        PROVE  Listed(permsQueries(with) \o <<"automation">> \o (IF with THEN <<"impact">> ELSE <<>>))
    <2> DEFINE s == permsQueries(with) \o <<"automation">>
               t == IF with THEN <<"impact">> ELSE <<>>
    <2>1. Listed(s) /\ Range(s) \subseteq Range(permsQueries(with)) \cup Range(<<"automation">>)
      <3>1. \A i \in DOMAIN permsQueries(with), k \in DOMAIN <<"automation">> :
              permsQueries(with)[i] # <<"automation">>[k]
        BY <1>3
      <3> QED BY <1>2, <1>3, <3>1, JoinDistinct DEF Listed
    <2>2. \A i \in DOMAIN s : s[i] \in {"objectPerms", "fieldPerms", "automation"}
      <3>1. Range(permsQueries(with)) \subseteq {"objectPerms", "fieldPerms"}
        BY <1>3 DEF Range
      <3>2. Range(<<"automation">>) = {"automation"}
        BY DEF Range
      <3> QED BY <2>1, <3>1, <3>2 DEF Range
    <2>3. Listed(t) /\ \A i \in DOMAIN t : t[i] = "impact"
      BY <1>1, <1>2
    <2> HIDE DEF s, t
    <2>4. Listed(s \o t)
      BY <2>1, <2>2, <2>3, JoinDistinct DEF Listed
    <2> QED BY <2>4 DEF s, t
  <1>6. CASE branch = "review"
    <2>1. Queries(branch, q, checks) =
            permsQueries(aboutField(q)) \o <<"automation">>
            \o (IF aboutField(q) THEN <<"impact">> ELSE <<>>)
      BY <1>6 DEF Queries
    <2> QED BY <1>5, <2>1
  <1>7. CASE branch = "mixed"
    <2>1. Queries(branch, q, checks) = permsQueries(TRUE) \o <<"impact">>
      BY <1>7 DEF Queries
    <2> QED BY <1>4, <2>1
  <1>8. CASE branch = "perms"
    <2>1. Queries(branch, q, checks) = permsQueries(aboutField(q))
      BY <1>8 DEF Queries
    <2> QED BY <1>3, <2>1
  <1>9. CASE branch \notin {"review", "mixed", "perms"}
    <2>1. Queries(branch, q, checks) \in
            {<<>>, <<"automation">>, <<"impact">>, <<"impact", "verification">>}
      BY <1>9 DEF Queries
    <2> QED BY <1>1, <1>2, <2>1
  <1> QED BY <1>6, <1>7, <1>8, <1>9

\* The multipliers order what the graph queries find, and change nothing else.
LEMMA AnswersAlike ==
    ASSUME NEW k, NEW texts, NEW low, NEW m, NEW n
    PROVE  LET one == Answered(k, texts, low, m)
               other == Answered(k, texts, low, n)
           IN  IF k \in {"objectPerms", "fieldPerms"} THEN one = other
                                                    ELSE DOMAIN one = DOMAIN other
  <1>1. ASSUME NEW found, NEW relations
        PROVE  Edges(texts, found, relations, low, m) = Edges(texts, found, relations, low, n)
    BY DEF Edges, passesConfidenceFloor
  <1>2. DOMAIN automation(texts, low, m) = DOMAIN automation(texts, low, n)
    BY <1>1 DEF automation, Ranked
  <1>3. DOMAIN impact(texts, low, m) = DOMAIN impact(texts, low, n)
    BY <1>1 DEF impact, Ranked
  <1> QED BY <1>2, <1>3 DEF Answered

Permissions == {"objectPerms", "fieldPerms"}

\* Two sets of answers that differ in the order of edges only.
Alike(one, other) ==
    /\ DOMAIN one = DOMAIN other
    /\ \A k \in DOMAIN one : IF k \in Permissions THEN one[k] = other[k]
                                                  ELSE DOMAIN one[k] = DOMAIN other[k]

\* What is granted is asked for first.
LEMMA PermissionsAreRead ==
    ASSUME NEW branch \in {"review", "mixed", "perms"}, NEW q, NEW checks
    PROVE  "objectPerms" \in Range(Queries(branch, q, checks))
  <1> DEFINE left == Queries(branch, q, checks)
  <1>1. ASSUME NEW with, NEW s \in Seq(QueryNames)
        PROVE  LET joined == permsQueries(with) \o s
               IN  joined \in Seq(QueryNames) /\ 1 \in DOMAIN joined /\ joined[1] = "objectPerms"
    <2> DEFINE p == permsQueries(with)
    <2>1. p \in Seq(QueryNames) /\ 1 \in DOMAIN p /\ p[1] = "objectPerms"
      <3>1. <<"objectPerms">> \in Seq(QueryNames) /\ <<"objectPerms", "fieldPerms">> \in Seq(QueryNames)
        BY DEF QueryNames
      <3>2. /\ 1 \in DOMAIN <<"objectPerms">> /\ <<"objectPerms">>[1] = "objectPerms"
            /\ 1 \in DOMAIN <<"objectPerms", "fieldPerms">>
            /\ <<"objectPerms", "fieldPerms">>[1] = "objectPerms"
        OBVIOUS
      <3>3. p = <<"objectPerms">> \/ p = <<"objectPerms", "fieldPerms">>
        BY DEF permsQueries
      <3> QED BY <3>1, <3>2, <3>3
    <2> HIDE DEF p
    <2>2. p \o s \in Seq(QueryNames) /\ 1 \in DOMAIN (p \o s) /\ (p \o s)[1] = p[1]
      BY <2>1
    <2> QED BY <2>1, <2>2 DEF p
  <1>2. 1 \in DOMAIN left /\ left[1] = "objectPerms"
    <2>1. CASE branch = "review"
      <3> DEFINE s == permsQueries(aboutField(q)) \o <<"automation">>
                 t == IF aboutField(q) THEN <<"impact">> ELSE <<>>
      <3>1. left = s \o t
        BY <2>1 DEF Queries
      <3>2. s \in Seq(QueryNames) /\ 1 \in DOMAIN s /\ s[1] = "objectPerms"
        <4>1. <<"automation">> \in Seq(QueryNames)
          BY DEF QueryNames
        <4> QED BY <1>1, <4>1
      <3>3. t \in Seq(QueryNames)
        <4>1. <<"impact">> \in Seq(QueryNames) /\ <<>> \in Seq(QueryNames)
          BY DEF QueryNames
        <4> QED BY <4>1
      <3> HIDE DEF s, t
      <3> QED BY <3>1, <3>2, <3>3
    <2>2. CASE branch = "mixed"
      <3>1. left = permsQueries(TRUE) \o <<"impact">>
        BY <2>2 DEF Queries
      <3>2. <<"impact">> \in Seq(QueryNames)
        BY DEF QueryNames
      <3> QED BY <1>1, <3>1, <3>2
    <2>3. CASE branch = "perms"
      <3>1. left = permsQueries(aboutField(q))
        BY <2>3 DEF Queries
      <3> QED BY <3>1 DEF permsQueries
    <2> QED BY <2>1, <2>2, <2>3
  <1> HIDE DEF left
  <1> QED BY <1>2 DEF Range, left

\* The risk of a review as a number of its permissions and its two totals.
Risk(base, automations, impacts) ==
    LET sum == base + Min({9000, 3000 * automations}) + Min({10800, 2000 * impacts})
    IN  (Min({36000, sum}) + 18) \div 36

\* The order of edges has no part in the outcome of an execution: its answer, its
\* metrics and its trust level.
LEMMA SameOutcome ==
    ASSUME NEW r, NEW branch, NEW cites, NEW one, NEW other, NEW assisted, NEW id,
           Alike(one, other), DOMAIN one = Range(Queries(branch, r.q, r.consistency))
    PROVE  LET first == Respond(r, branch, cites, one, assisted, id)
               second == Respond(r, branch, cites, other, assisted, id)
           IN  /\ first.deterministicAnswer = second.deterministicAnswer
               /\ first.trustLevel = second.trustLevel
               /\ first.metrics = second.metrics
  <1>1. \A k : k \notin Permissions => Total(one, k) = Total(other, k)
    BY DEF Alike, Total
  <1>2. ASSUME branch \in {"review", "mixed", "perms"} PROVE granted(one) = granted(other)
    <2>1. "objectPerms" \in DOMAIN one
      BY <1>2, PermissionsAreRead
    <2>2. one["objectPerms"] = other["objectPerms"]
      BY <2>1 DEF Alike, Permissions
    <2>3. "fieldPerms" \in DOMAIN one => one["fieldPerms"] = other["fieldPerms"]
      BY DEF Alike, Permissions
    <2> QED BY <2>2, <2>3 DEF granted, Alike
  <1>3. Total(one, "automation") = Total(other, "automation")
    BY <1>1 DEF Permissions
  <1>4. Total(one, "impact") = Total(other, "impact")
    BY <1>1 DEF Permissions
  <1>5. ASSUME branch = "review" PROVE riskLevel(one) = riskLevel(other)
    <2>1. granted(one) <=> granted(other)
      BY <1>2, <1>5
    <2>2. (IF granted(one) THEN 7200 ELSE 16200) = (IF granted(other) THEN 7200 ELSE 16200)
      BY <2>1
    <2>3. \A reads : reviewRiskScore(reads) =
            Risk(IF granted(reads) THEN 7200 ELSE 16200, Total(reads, "automation"),
                 Total(reads, "impact"))
      BY DEF reviewRiskScore, Risk
    <2>4. reviewRiskScore(one) = reviewRiskScore(other)
      BY <1>3, <1>4, <2>2, <2>3
    <2> QED BY <2>4 DEF riskLevel
  <1>6. confidence(branch, r.q, cites, one) = confidence(branch, r.q, cites, other)
    <2>1. CASE branch = "review"
      BY <1>5, <2>1 DEF confidence
    <2>2. CASE branch \in {"mixed", "perms"}
      BY <1>2, <1>4, <2>2 DEF confidence
    <2>3. CASE branch \notin {"review", "mixed", "perms"}
      BY <1>3, <1>4, <2>3 DEF confidence
    <2> QED BY <2>1, <2>2, <2>3
  <1>7. rejectedBranches(branch, r.q, cites, one) = rejectedBranches(branch, r.q, cites, other)
    <2>1. CASE branch \in {"review", "mixed", "perms"}
      BY <1>2, <1>3, <1>4, <2>1 DEF rejectedBranches
    <2>2. CASE branch \notin {"review", "mixed", "perms"}
      BY <1>3, <1>4, <2>2 DEF rejectedBranches
    <2> QED BY <2>1, <2>2
  <1>8. consistency(branch, r.consistency, one) = consistency(branch, r.consistency, other)
    BY <1>1 DEF consistency, Alike, Permissions
  <1>9. deterministicAnswer(branch, r.q, cites, one) = deterministicAnswer(branch, r.q, cites, other)
    <2>1. \A k \in DOMAIN one : k \in Permissions => one[k] = other[k]
      BY DEF Alike
    <2>2. DOMAIN one = DOMAIN other
      BY DEF Alike
    <2> QED BY <1>1, <2>1, <2>2 DEF deterministicAnswer, Permissions
  <1> QED BY <1>6, <1>7, <1>8, <1>9 DEF Respond

------------------------------------------------------------------------------
(* Refusals.                                                               *)

\* The model is not asked about a refusal, and about nothing without evidence.
LEMMA NoModel ==
    ASSUME NEW r, NEW branch, NEW cites, NEW reads, asksModel(r, branch, cites, reads)
    PROVE  branch \notin Refusals /\ DOMAIN cites # {}
  BY DEF asksModel, confidence, Refusals, LLM_MIN_CONFIDENCE

\* A refusal, or an answer without evidence, scores too low to be trusted.
LEMMA Refused ==
    ASSUME NEW r, NEW branch, NEW cites, NEW reads, NEW assisted, NEW id,
           GroundingThreshold > 6400,
           DOMAIN cites = {} \/ (branch \in Refusals /\ ~assisted)
    PROVE  Respond(r, branch, cites, reads, assisted, id).trustLevel = "refused"
  <1> DEFINE Metrics(conf) ==
                buildMetrics(Cardinality(DOMAIN cites), conf,
                             consistency(branch, r.consistency, reads), intent(r.q),
                             rejectedBranches(branch, r.q, cites, reads))
             base == confidence(branch, r.q, cites, reads)
  <1>1. ASSUME NEW conf, DOMAIN cites = {} \/ conf \in {18, 20}
        PROVE  Metrics(conf).groundingScore < GroundingThreshold
    <2>1. GroundingThreshold \in Int
      BY AskAssumption
    <2>2. Metrics(conf).groundingScore
            = IF Cardinality(DOMAIN cites) > 0 THEN 5500 + 45 * conf ELSE 2500
      BY DEF buildMetrics
    <2>3. CASE DOMAIN cites = {}
      BY <2>1, <2>2, <2>3, FS_EmptySet
    <2>4. CASE conf \in {18, 20}
      BY <2>1, <2>2, <2>4
    <2> QED BY <1>1, <2>3, <2>4
  <1>2. ASSUME NEW conf, DOMAIN cites = {} \/ conf \in {18, 20}
        PROVE  resolveTrustLevel(Metrics(conf)) = "refused"
    BY <1>1, <1>2 DEF resolveTrustLevel
  <1>3. branch \in Refusals => base \in {18, 20}
    BY DEF confidence, Refusals
  <1>4. Respond(r, branch, cites, reads, assisted, id).trustLevel
          = resolveTrustLevel(Metrics(IF assisted THEN Min({97, base + 3}) ELSE base))
    BY DEF Respond
  <1> HIDE DEF Metrics, base
  <1> QED BY <1>2, <1>3, <1>4

------------------------------------------------------------------------------
(* Questions and evidence.                                                 *)

\* The intent of a question is one of six.
Intents == {"perms", "automation", "impact", "mixed", "review", "unknown"}

LEMMA IntentIsKnown ==
    ASSUME NEW q \in Questions
    PROVE  intent(q) \in Intents
  <1> DEFINE active == activeWords(q)
  <1>1. active \subseteq {"perms", "automation", "impact"}
    BY DEF activeWords, Questions
  <1>2. Cardinality(active) = 1 => active # {}
    BY FS_EmptySet
  <1> HIDE DEF active
  <1>3. Cardinality(active) = 1 => (CHOOSE w \in active : TRUE) \in {"perms", "automation", "impact"}
    BY <1>1, <1>2
  <1> QED BY <1>3 DEF intent, active, Intents

\* What a selection restricts a search to are files.
LEMMA ScopeIsFiles ==
    ASSUME NEW scope \in SUBSET Selections
    PROVE  ScopeFiles(scope) \subseteq Files
  <1>1. ASSUME NEW s \in scope PROVE resolveSelectionSourceRule(s) \subseteq Files
    <2>1. s.members \subseteq Files
      BY DEF Selections
    <2>2. FamilyFiles(s.type) \subseteq Files
      BY DEF FamilyFiles
    <2>3. UNION {Under[m] : m \in s.members} \subseteq Files
      BY <2>1, AskAssumption
    <2> QED BY <2>2, <2>3 DEF resolveSelectionSourceRule
  <1> QED BY <1>1 DEF ScopeFiles

\* A search returns files of the scope, and any file if the scope has no rule.
LEMMA HitsAreFiles ==
    ASSUME NEW e, NEW scope \in {None} \cup SUBSET Selections
    PROVE  LET hits == DOMAIN searchEvidence(e, scope)
           IN  /\ hits \subseteq Files
               /\ scope # None /\ (\E s \in scope : HasRule(s)) => hits \subseteq ScopeFiles(scope)
  BY ScopeIsFiles DEF searchEvidence, buildEvidenceSearchOptions

LEMMA SourcePaths ==
    ASSUME NEW files, NEW e, NEW t
    PROVE  DOMAIN resolveSourcePathEvidence(files, e, t) \subseteq files
  BY DEF resolveSourcePathEvidence

\* A flow is asked for by its name, or is the one among the hits.
LEMMA FlowAskedFor ==
    ASSUME NEW q \in Questions, NEW hits
    PROVE  requestedFlowName(q, hits) \in {None, q.named} \cup DOMAIN hits
  <1> DEFINE flows == {f \in DOMAIN hits : TypeOf[f] = "Flow"}
  <1>1. Cardinality(flows) = 1 => flows # {}
    BY FS_EmptySet
  <1>2. Cardinality(flows) = 1 => (CHOOSE f \in flows : TRUE) \in flows
    BY <1>1
  <1> QED BY <1>2 DEF requestedFlowName, inferRequestedFlowName

\* Where execute gets to an answer, it has what the answer is made from.
LEMMA BranchHas ==
    ASSUME NEW q \in Questions, NEW scope \in {None} \cup SUBSET Selections, NEW hits
    PROVE  LET branch == Branch(q, scope, hits)
           IN  /\ branch = "lookup" /\ q.latest => scope # None
               /\ branch \in {"scopedImpact", "scopedAutomation"} => scope # None
               /\ branch = "flow" => requestedFlowName(q, hits) # None
  BY DEF Branch, AutomationBranch, ImpactBranch

\* A question about the latest retrieve that is not refused is answered from the
\* evidence alone.
EvidenceBranches == {"lookup", "flow", "flowUnresolved", "scopedAutomation", "scopedImpact"}

LEMMA LatestBranch ==
    ASSUME NEW q \in Questions, NEW scope \in {None} \cup SUBSET Selections, NEW hits,
           q.latest, Branch(q, scope, hits) \notin Refusals
    PROVE  scope # None /\ Branch(q, scope, hits) \in EvidenceBranches
  <1> DEFINE p == plan(q)
  <1>1. /\ scope # None /\ latestRetrieveSupported(q, scope)
        /\ p.intent = intent(q) /\ p.frame = buildSemanticFrame(q)
    BY DEF Branch, Refusals, plan
  <1>2. CASE p.frame.intent = "evidence_lookup"
    <2>1. intent(q) = "unknown"
      BY <1>1, <1>2, IntentIsKnown
         DEF Intents, buildSemanticFrame, approvalFrame, permissionFrame, impactFrame,
             automationFrame, NoFrame, Frame
    <2>2. p.intent = "unknown"
      BY <1>1, <2>1
    <2>3. Branch(q, scope, hits) = IF p.frame.admissible THEN "lookup" ELSE "blocked"
      BY <1>1, <1>2, <2>2 DEF Branch
    <2>4. Branch(q, scope, hits) \in {"lookup", "blocked"}
      BY <2>3
    <2> QED BY <1>1, <2>4 DEF Refusals, EvidenceBranches
  <1>3. CASE intent(q) = "review"
    BY <1>1, <1>3 DEF Branch, Refusals, latestRetrieveSupported, buildSemanticFrame,
                      approvalFrame, NoFrame, Frame, plan
  <1>4. CASE intent(q) = "perms"
    BY <1>1, <1>4 DEF Branch, Refusals, buildSemanticFrame, permissionFrame, Frame, plan
  <1>5. CASE intent(q) = "mixed"
    BY <1>1, <1>5 DEF Branch, Refusals, latestRetrieveSupported, buildSemanticFrame, NoFrame, plan
  <1>6. CASE intent(q) = "automation"
    <2>1. p.frame.intent \in {"none", "automation_path_explanation"}
      BY <1>1, <1>6 DEF buildSemanticFrame, automationFrame, NoFrame, Frame
    <2>2. Branch(q, scope, hits) = AutomationBranch(q, scope, hits)
      BY <1>1, <1>6, <2>1 DEF Branch
    <2>3. q.flow # "none" \/ grounded(q)
      BY <1>1, <1>6, <2>1 DEF latestRetrieveSupported, plan
    <2> QED BY <1>1, <2>2, <2>3 DEF AutomationBranch, EvidenceBranches, Refusals
  <1>7. CASE intent(q) = "impact"
    <2>1. p.frame = [intent |-> "impact_analysis", admissible |-> aboutField(q)]
      BY <1>1, <1>7 DEF buildSemanticFrame, impactFrame, Frame
    <2>2. Branch(q, scope, hits) = ImpactBranch(q, scope)
      BY <1>1, <1>7, <2>1 DEF Branch
    <2>3. evidenceScopeContains(scope, q.target)
      BY <1>1, <1>7, <2>1 DEF latestRetrieveSupported, plan
    <2> QED BY <1>1, <2>2, <2>3 DEF ImpactBranch, EvidenceBranches, Refusals
  <1>8. CASE intent(q) = "unknown" /\ p.frame.intent # "evidence_lookup"
    BY <1>1, <1>8 DEF Branch, Refusals
  <1> QED BY <1>2, <1>3, <1>4, <1>5, <1>6, <1>7, <1>8, IntentIsKnown DEF Intents

\* What an execution may cite when its question is about the latest retrieve.
Citable(r) == ScopeFiles(r.scope) \cup {r.q.named}

\* The evidence that an answer adds to the hits of its search comes from the scope,
\* or is about the flow or component that the question names.
LEMMA EvidenceIsFound ==
    ASSUME NEW r \in Requests, NEW e, NEW t, NEW hits, NEW branch,
           hits = searchEvidence(e, r.scope), branch = Branch(r.q, r.scope, hits)
    PROVE  LET found == DOMAIN FallbackHits(branch, r.q, r.scope, hits, e, t)
           IN  /\ found \subseteq Files
               /\ r.scope # None => found \subseteq Citable(r) \cup DOMAIN hits
  <1>1. r.q \in Questions /\ r.scope \in {None} \cup SUBSET Selections
    BY DEF Requests
  <1>2. r.q.named \in Files \cup {None} /\ None \notin Files
    BY <1>1, AskAssumption DEF Questions
  <1>3. DOMAIN hits \subseteq Files
    BY <1>1, HitsAreFiles
  <1>4. r.scope # None => /\ ScopeFiles(r.scope) \subseteq Files
                          /\ DOMAIN resolveScopedMetadataEvidence(r.scope, e, t)
                                \subseteq ScopeFiles(r.scope)
    BY <1>1, ScopeIsFiles, SourcePaths DEF resolveScopedMetadataEvidence
  <1>5. CASE branch = "lookup" /\ r.q.latest
    <2> DEFINE usage == resolveScopedComponentUsageEvidence(r.scope, e, t)
               definition == resolveScopedComponentDefinitionEvidence(r.q, r.scope, e, t)
    <2>1. r.scope # None
      BY <1>1, <1>5, BranchHas
    <2>2. DOMAIN usage \subseteq ScopeFiles(r.scope)
      BY <1>4, <2>1 DEF resolveScopedComponentUsageEvidence
    <2>3. /\ DOMAIN definition \subseteq Files
          /\ DOMAIN definition \subseteq Citable(r)
      <3>1. CASE r.q.named = None
        BY <3>1 DEF resolveScopedComponentDefinitionEvidence, NoHits
      <3>2. CASE r.q.named # None /\ TypeOf[r.q.named] = "Flow"
        <4>1. definition = resolveSourcePathEvidence({r.q.named}, e, t)
          BY <3>2 DEF resolveScopedComponentDefinitionEvidence, resolveScopedFlowEvidence
        <4> HIDE DEF definition
        <4> QED BY <1>2, <3>2, <4>1, SourcePaths DEF Citable
      <3>3. CASE /\ r.q.named # None /\ TypeOf[r.q.named] # "Flow"
                 /\ \E s \in r.scope : s.type = TypeOf[r.q.named] /\ r.q.named \in s.members /\ HasRule(s)
        <4>1. PICK s \in r.scope : r.q.named \in s.members /\ HasRule(s)
          BY <3>3
        <4>2. definition = resolveSourcePathEvidence(Under[r.q.named], e, t)
          BY <3>3 DEF resolveScopedComponentDefinitionEvidence
        <4>3. s.members # {} /\ s.type \in RuleTypes
          BY <4>1 DEF HasRule
        <4>4. Under[r.q.named] \subseteq resolveSelectionSourceRule(s)
          BY <4>1, <4>3 DEF resolveSelectionSourceRule
        <4>5. Under[r.q.named] \subseteq ScopeFiles(r.scope)
          BY <4>4 DEF ScopeFiles
        <4> HIDE DEF definition
        <4> QED BY <1>4, <2>1, <4>2, <4>5, SourcePaths DEF Citable
      <3>4. CASE /\ r.q.named # None /\ TypeOf[r.q.named] # "Flow"
                 /\ ~ \E s \in r.scope : s.type = TypeOf[r.q.named] /\ r.q.named \in s.members /\ HasRule(s)
        BY <3>4 DEF resolveScopedComponentDefinitionEvidence, NoHits
      <3> QED BY <3>1, <3>2, <3>3, <3>4
    <2>4. FallbackHits(branch, r.q, r.scope, hits, e, t)
            = IF DOMAIN usage # {} THEN usage ELSE definition
      BY <1>5 DEF FallbackHits
    <2> HIDE DEF usage, definition
    <2> QED BY <1>4, <2>1, <2>2, <2>3, <2>4 DEF Citable
  <1>6. CASE branch = "flow" /\ r.scope # None
    <2> DEFINE flow == requestedFlowName(r.q, hits)
    <2>1. flow \in {r.q.named} \cup DOMAIN hits /\ flow \in Files
      BY <1>1, <1>2, <1>3, <1>6, FlowAskedFor, BranchHas
    <2>2. FallbackHits(branch, r.q, r.scope, hits, e, t) = resolveSourcePathEvidence({flow}, e, t)
      BY <1>6 DEF FallbackHits, resolveScopedFlowEvidence
    <2> HIDE DEF flow
    <2> QED BY <2>1, <2>2, SourcePaths DEF Citable
  <1>7. CASE branch \in {"scopedImpact", "scopedAutomation"}
    <2>1. r.scope # None
      BY <1>1, <1>7, BranchHas
    <2>2. FallbackHits(branch, r.q, r.scope, hits, e, t)
            = resolveScopedMetadataEvidence(r.scope, e, t)
      BY <1>7 DEF FallbackHits
    <2> QED BY <1>4, <2>1, <2>2 DEF Citable
  <1>8. CASE /\ ~(branch = "lookup" /\ r.q.latest) /\ ~(branch = "flow" /\ r.scope # None)
             /\ branch \notin {"scopedImpact", "scopedAutomation"}
    BY <1>8 DEF FallbackHits, NoHits
  <1> QED BY <1>5, <1>6, <1>7, <1>8

\* What an execution cites.
LEMMA CitesAreFound ==
    ASSUME NEW r \in Requests, NEW e, NEW t, NEW hits, NEW branch,
           hits = searchEvidence(e, r.scope), branch = Branch(r.q, r.scope, hits)
    PROVE  /\ DOMAIN citationHits(branch, r.q, r.scope, hits, e, t) \subseteq Files
           /\ r.scope # None /\ (\E s \in r.scope : HasRule(s)) =>
                DOMAIN citationHits(branch, r.q, r.scope, hits, e, t) \subseteq Citable(r)
  <1>1. r.q \in Questions /\ r.scope \in {None} \cup SUBSET Selections
    BY DEF Requests
  <1>2. /\ DOMAIN hits \subseteq Files
        /\ r.scope # None /\ (\E s \in r.scope : HasRule(s)) => DOMAIN hits \subseteq Citable(r)
    BY <1>1, HitsAreFiles DEF Citable
  <1>3. DOMAIN citationHits(branch, r.q, r.scope, hits, e, t)
          \subseteq DOMAIN hits \cup DOMAIN FallbackHits(branch, r.q, r.scope, hits, e, t)
    BY DEF citationHits, dedupeCitations
  <1> QED BY <1>2, <1>3, EvidenceIsFound

------------------------------------------------------------------------------
(* The invariant.                                                          *)

Now == edits + refreshes

StoresTyped ==
    /\ {tree, graph, evidence} \subseteq Trees
    /\ refreshState \in Trees \cup {None} /\ refreshing \in Trees \cup {None}
    /\ DOMAIN multipliers = Relations4 /\ \A rel \in Relations4 : multipliers[rel] \in Bounded
    /\ requests \in Nat /\ edits \in Nat /\ refreshes \in Nat /\ adapts \in Nat /\ faults \in Nat

LogsTyped ==
    /\ proofs \in Seq(Range(proofs))
    /\ \A i \in DOMAIN proofs : proofs[i].request \in Requests /\ proofs[i].citationIds \subseteq Files
    /\ runs \in Seq([began : Moments, ended : Moments, assisted : BOOLEAN])
    /\ Len(runs) = Len(proofs)
    /\ metricsLog \in Seq(Records)
    /\ proofsTorn \in BOOLEAN /\ metricsTorn \in BOOLEAN

JobFields == {"op", "request", "proof", "branch", "snapshotId", "began", "assisted", "cites",
              "left", "reads", "pc"}

\* Who an execution is for, and when it began.
Working(j) ==
    /\ DOMAIN j = JobFields
    /\ j.op \in {"ask", "replay"} /\ j.pc \in {"query", "model", "proof", "metrics"}
    /\ j.request \in Requests /\ j.assisted \in BOOLEAN
    /\ j.began \in Moments /\ j.began.stores <= Now /\ j.began.adapts <= adapts
    /\ j.proof \in 0..Len(proofs)
    /\ j.op = "replay" => /\ j.pc # "metrics" /\ j.proof \in DOMAIN proofs
                          /\ proofs[j.proof].request = j.request

\* The queries of its branch are those it has read and those it has left.
Placed(j) ==
    /\ Listed(j.left) /\ Range(j.left) \cap DOMAIN j.reads = {}
    /\ Range(j.left) \cup DOMAIN j.reads
         = Range(Queries(j.branch, j.request.q, j.request.consistency))
    /\ j.pc = "query" <=> j.left # <<>>
    /\ j.reads = [k \in DOMAIN j.reads |-> j.reads[k]]
    /\ j.pc \in {"query", "model"} => ~j.assisted
    /\ j.assisted \/ j.pc = "model" => asksModel(j.request, j.branch, j.cites, j.reads)

\* Its branch and its evidence are what the index e and the tree t made of it.
FromStores(j, e, t) ==
    LET hits == searchEvidence(e, j.request.scope)
    IN  /\ j.branch = Branch(j.request.q, j.request.scope, hits)
        /\ j.cites = citationHits(j.branch, j.request.q, j.request.scope, hits, e, t)

Founded(j) == \E e, t : FromStores(j, e, t)

\* An answer that the graph as it is gives, under the present multipliers if they have
\* not been adapted since.
ReadFrom(j, k) ==
    \E m : /\ j.reads[k] = Answered(k, graph, j.request.low, m)
           /\ j.began.adapts = adapts => m = multipliers

\* If no store has changed since it began, it is as if it had begun and read just now.
Current(j) ==
    j.began.stores = Now =>
        /\ FromStores(j, evidence, tree) /\ j.snapshotId = refreshState
        /\ \A k \in DOMAIN j.reads : ReadFrom(j, k)

JobHeld(j) == Working(j) /\ Placed(j) /\ Founded(j) /\ Current(j)

JobsHeld ==
    /\ DOMAIN job = Handlers /\ turn \in Handlers \cup {None}
    /\ \A h \in Handlers : /\ turn = h <=> job[h].pc \in {"proof", "metrics"}
                           /\ job[h] = NoJob \/ JobHeld(job[h])

ResultOf(j) == Respond(j.request, j.branch, j.cites, j.reads, j.assisted, j.snapshotId)

\* Every proof is the result of an execution that could be one of the present.
ProofOf(i, j) ==
    /\ proofs[i] = ResultOf(j)
    /\ j.began = runs[i].began /\ j.assisted = runs[i].assisted
    /\ j.began.stores <= Now /\ j.began.adapts <= adapts
    /\ Placed(j) /\ j.left = <<>> /\ Founded(j) /\ Current(j)

ProofsHeld == \A i \in DOMAIN proofs : \E j : ProofOf(i, j)

Held == StoresTyped /\ LogsTyped /\ JobsHeld /\ ProofsHeld

\* Every answer has its proof, every line of the metrics log too, and an ask between
\* its two appends has a proof and no line yet.
Owing(h) == Running(h, "ask", "metrics")
Owed == IF \E h \in Handlers : Owing(h) THEN 1 ELSE 0

Proven ==
    ~proofsTorn =>
        /\ \A a \in answered : \E i \in DOMAIN proofs : proofs[i].proofId = a.proofId
        /\ \A h \in Handlers : Owing(h) =>
              \E i \in DOMAIN proofs : proofs[i].proofId = Result(h).proofId
        /\ \E earlier \in FirstLogs : Len(metricsLog) + Owed <= Len(earlier) + Len(proofs)

------------------------------------------------------------------------------
(* Steps.                                                                  *)

\* What any step does to the logs, and to the counts of what an execution depends on.
LogsGrow ==
    /\ Len(proofs) <= Len(proofs') /\ DOMAIN proofs \subseteq DOMAIN proofs'
    /\ \A i \in DOMAIN proofs : proofs'[i] = proofs[i] /\ runs'[i] = runs[i]

StoresMove ==
    /\ Now' \in Nat /\ adapts' \in Nat
    /\ UNCHANGED <<tree, graph, evidence, refreshState, Now>> \/ Now' > Now
    /\ UNCHANGED <<multipliers, adapts>> \/ adapts' > adapts

Advance == LogsGrow /\ StoresMove

LEMMA StaysCurrent ==
    ASSUME StoresTyped, Advance, NEW j, j.began \in Moments,
           j.began.stores <= Now, j.began.adapts <= adapts, Current(j)
    PROVE  j.began.stores <= Now' /\ j.began.adapts <= adapts' /\ Current(j)'
  <1>1. Now \in Nat /\ adapts \in Nat /\ Now' \in Nat /\ adapts' \in Nat
    <2>1. Now \in Nat
      BY DEF StoresTyped, Now
    <2> QED BY <2>1 DEF StoresTyped, Advance, StoresMove, LogsGrow
  <1>2. j.began.stores \in Nat /\ j.began.adapts \in Nat
    BY DEF Moments
  <1>3. Now <= Now' /\ adapts <= adapts'
    BY <1>1 DEF Advance, StoresMove
  <1>4. CASE Now' > Now
    BY <1>1, <1>2, <1>3, <1>4 DEF Current
  <1>5. CASE UNCHANGED <<tree, graph, evidence, refreshState, Now>>
    <2>1. ASSUME j.began.stores = Now, NEW k \in DOMAIN j.reads
          PROVE  ReadFrom(j, k)'
      <3>1. PICK m : /\ j.reads[k] = Answered(k, graph, j.request.low, m)
                     /\ j.began.adapts = adapts => m = multipliers
        BY <2>1 DEF Current, ReadFrom
      <3>2. j.began.adapts = adapts' => m = multipliers'
        BY <1>1, <1>2, <3>1 DEF Advance, StoresMove
      <3> QED BY <1>5, <3>1, <3>2 DEF ReadFrom
    <2> QED BY <1>1, <1>2, <1>3, <1>5, <2>1 DEF Current
  <1> QED BY <1>1, <1>2, <1>3, <1>4, <1>5 DEF Advance, StoresMove

\* A job that a step leaves alone is held as before.
LEMMA StaysHeld ==
    ASSUME StoresTyped, LogsTyped, Advance, NEW j, JobHeld(j)
    PROVE  JobHeld(j)'
  <1>1. Working(j)'
    <2>1. j.began.stores <= Now' /\ j.began.adapts <= adapts'
      BY StaysCurrent DEF JobHeld, Working
    <2>2. j.proof \in 0..Len(proofs')
      BY DEF JobHeld, Working, Advance, LogsGrow, LogsTyped
    <2>3. j.op = "replay" => /\ j.proof \in DOMAIN proofs'
                             /\ proofs'[j.proof].request = j.request
      BY DEF JobHeld, Working, Advance, StoresMove, LogsGrow
    <2> QED BY <2>1, <2>2, <2>3 DEF JobHeld, Working
  <1>2. Current(j)'
    BY StaysCurrent DEF JobHeld, Working
  <1> QED BY <1>1, <1>2 DEF JobHeld

\* When one handler moves on, the others' jobs are held as before.
LEMMA OneMoves ==
    ASSUME StoresTyped, LogsTyped, JobsHeld, Advance, NEW h \in Handlers, NEW next,
           job' = [job EXCEPT ![h] = next], next = NoJob \/ JobHeld(next)',
           turn \in {h, None},
           turn' = IF next.pc \in {"proof", "metrics"} THEN h ELSE None
    PROVE  JobsHeld'
  <1>1. DOMAIN job' = Handlers /\ turn' \in Handlers \cup {None} /\ job'[h] = next
    BY DEF JobsHeld
  <1>2. ASSUME NEW g \in Handlers
        PROVE  turn' = g <=> job'[g].pc \in {"proof", "metrics"}
    <2>1. CASE g = h
      BY <1>1, <2>1, ReplayAssumption
    <2>2. CASE g # h
      BY <1>1, <2>2, ReplayAssumption DEF JobsHeld
    <2> QED BY <2>1, <2>2
  <1>3. ASSUME NEW g \in Handlers
        PROVE  job'[g] = NoJob \/ JobHeld(job[g])'
    <2>1. CASE g = h
      BY <1>1, <2>1 DEF JobHeld, Working, Current, ReadFrom
    <2>2. CASE g # h
      <3>1. job'[g] = job[g]
        BY <2>2 DEF JobsHeld
      <3>2. PICK j : j = job[g]
        OBVIOUS
      <3>3. j = NoJob \/ JobHeld(j)
        BY <3>2 DEF JobsHeld
      <3>4. j = NoJob \/ JobHeld(j)'
        BY <3>3, StaysHeld
      <3> QED BY <3>1, <3>2, <3>4 DEF JobHeld, Working, Current, ReadFrom
    <2> QED BY <2>1, <2>2
  <1> QED BY <1>1, <1>2, <1>3 DEF JobsHeld

\* When nothing but the stores changes, every job is held as before.
LEMMA NoneMoves ==
    ASSUME StoresTyped, LogsTyped, JobsHeld, Advance, UNCHANGED <<job, turn>>
    PROVE  JobsHeld'
  <1>1. ASSUME NEW g \in Handlers
        PROVE  job'[g] = NoJob \/ JobHeld(job[g])'
    <2>1. PICK j : j = job[g]
      OBVIOUS
    <2>2. j = NoJob \/ JobHeld(j)
      BY <2>1 DEF JobsHeld
    <2>3. j = NoJob \/ JobHeld(j)'
      BY <2>2, StaysHeld
    <2> QED BY <2>1, <2>3 DEF JobHeld, Working, Current, ReadFrom
  <1> QED BY <1>1 DEF JobsHeld

\* What execute does up to its first await.
LEMMA Begins ==
    ASSUME StoresTyped, LogsTyped, NEW op \in {"ask", "replay"}, NEW r \in Requests,
           NEW p \in 0..Len(proofs),
           op = "replay" => p \in DOMAIN proofs /\ proofs[p].request = r
    PROVE  LET j == Execution(op, r, p)
           IN  JobHeld(j) /\ j.pc \in {"query", "model", "proof"}
  <1> DEFINE hits == searchEvidence(evidence, r.scope)
             branch == Branch(r.q, r.scope, hits)
             asked == Queries(branch, r.q, r.consistency)
             first == [op |-> op, request |-> r, proof |-> p, branch |-> branch,
                       snapshotId |-> readSnapshotId, began |-> Moment, assisted |-> FALSE,
                       cites |-> citationHits(branch, r.q, r.scope, hits, evidence, tree),
                       left |-> asked, reads |-> NoReads, pc |-> "query"]
             j == Execution(op, r, p)
  <1>1. j = IF asked = <<>> THEN [first EXCEPT !.pc = AfterReads(first)] ELSE first
    BY DEF Execution
  <1>2. AfterReads(first) \in {"model", "proof"}
        /\ (AfterReads(first) = "model" =>
              asksModel(first.request, first.branch, first.cites, first.reads))
    BY DEF AfterReads
  <1> HIDE DEF first
  <1>3. /\ DOMAIN first = JobFields /\ first.op = op /\ first.request = r /\ first.proof = p
        /\ first.branch = branch /\ first.snapshotId = refreshState /\ first.began = Moment
        /\ first.assisted = FALSE /\ first.left = asked /\ first.reads = NoReads
        /\ first.cites = citationHits(branch, r.q, r.scope, hits, evidence, tree)
        /\ first.pc = "query"
    BY DEF first, JobFields, readSnapshotId
  <1>4. /\ Listed(asked)
        /\ Range(asked) \cap DOMAIN NoReads = {} /\ DOMAIN NoReads = {}
        /\ NoReads = [k \in DOMAIN NoReads |-> NoReads[k]]
    BY QueriesDiffer DEF NoReads
  <1> HIDE DEF asked, branch, hits
  <1>5. /\ DOMAIN j = JobFields /\ j.op = op /\ j.request = r /\ j.proof = p
        /\ j.branch = branch /\ j.snapshotId = refreshState /\ j.began = Moment
        /\ j.assisted = FALSE /\ j.left = asked /\ j.reads = NoReads
        /\ j.cites = citationHits(branch, r.q, r.scope, hits, evidence, tree)
        /\ j.pc = IF asked = <<>> THEN AfterReads(first) ELSE "query"
    BY <1>1, <1>3 DEF JobFields
  <1>6. /\ j.pc \in {"query", "model", "proof"} /\ (j.pc = "query" <=> asked # <<>>)
        /\ j.pc = "model" => asksModel(j.request, j.branch, j.cites, j.reads)
    BY <1>2, <1>3, <1>5
  <1> HIDE DEF j
  <1>7. Working(j)
    <2>1. Moment \in Moments /\ Moment.stores = Now /\ Moment.adapts = adapts
      BY DEF Moment, Moments, StoresTyped, Now
    <2>2. Now \in Nat /\ adapts \in Nat
      BY DEF StoresTyped, Now
    <2>3. j.began \in Moments /\ j.began.stores <= Now /\ j.began.adapts <= adapts
      BY <1>5, <2>1, <2>2
    <2>4. j.assisted \in BOOLEAN
      BY <1>5
    <2>5. j.op \in {"ask", "replay"} /\ j.request \in Requests /\ j.proof \in 0..Len(proofs)
      BY <1>5
    <2>6. j.op = "replay" => /\ j.pc # "metrics" /\ j.proof \in DOMAIN proofs
                             /\ proofs[j.proof].request = j.request
      BY <1>5, <1>6
    <2> QED BY <1>5, <1>6, <2>3, <2>4, <2>5, <2>6 DEF Working
  <1>8. Placed(j)
    BY <1>4, <1>5, <1>6 DEF Placed, asked
  <1>9. FromStores(j, evidence, tree)
    BY <1>5 DEF FromStores, hits, branch
  <1>10. Founded(j) /\ Current(j)
    BY <1>4, <1>5, <1>9 DEF Founded, Current
  <1> QED BY <1>6, <1>7, <1>8, <1>10 DEF JobHeld, j

\* A job that has been given the answer to its first query, and goes on.
Informed(j, value) ==
    [j EXCEPT !.left = Tail(j.left), !.reads = Read(j.reads, Head(j.left), value)]
Settled(j) == IF j.left = <<>> THEN [j EXCEPT !.pc = AfterReads(j)] ELSE j

\* A read of the graph as it is.
LEMMA ReadsNow ==
    ASSUME StoresTyped, NEW j, JobHeld(j), j.pc = "query", NEW value, NEW next, NEW after,
           value = Answered(Head(j.left), graph, j.request.low, multipliers),
           next = Informed(j, value), after = Settled(next)
    PROVE  JobHeld(after) /\ after.pc \in {"query", "model", "proof"}
  <1> DEFINE k == Head(j.left)
             reads == Read(j.reads, k, value)
  <1>1. DOMAIN j = JobFields
    BY DEF JobHeld, Working
  <1>2. /\ DOMAIN next = JobFields /\ next.left = Tail(j.left) /\ next.reads = reads
        /\ next.op = j.op /\ next.request = j.request /\ next.proof = j.proof
        /\ next.branch = j.branch /\ next.snapshotId = j.snapshotId /\ next.began = j.began
        /\ next.assisted = j.assisted /\ next.cites = j.cites /\ next.pc = "query"
    BY <1>1 DEF JobFields, Informed
  <1>3. /\ DOMAIN after = JobFields /\ after.left = Tail(j.left) /\ after.reads = reads
        /\ after.op = j.op /\ after.request = j.request /\ after.proof = j.proof
        /\ after.branch = j.branch /\ after.snapshotId = j.snapshotId /\ after.began = j.began
        /\ after.assisted = j.assisted /\ after.cites = j.cites
        /\ after.pc = IF Tail(j.left) = <<>> THEN AfterReads(next) ELSE "query"
    BY <1>2 DEF JobFields, Settled
  <1>4. /\ AfterReads(next) \in {"model", "proof"}
        /\ AfterReads(next) = "model" =>
              asksModel(after.request, after.branch, after.cites, after.reads)
    BY <1>2, <1>3 DEF AfterReads
  <1>5. after.pc \in {"query", "model", "proof"} /\ (after.pc = "query" <=> Tail(j.left) # <<>>)
    BY <1>3, <1>4
  <1>6. /\ Listed(Tail(j.left)) /\ k \notin Range(Tail(j.left))
        /\ Range(j.left) = Range(Tail(j.left)) \cup {k}
    BY TakesFirst DEF JobHeld, Placed, Listed
  <1>7. /\ DOMAIN reads = DOMAIN j.reads \cup {k} /\ reads[k] = value
        /\ \A n \in DOMAIN j.reads \ {k} : reads[n] = j.reads[n]
        /\ reads = [n \in DOMAIN reads |-> reads[n]]
    BY DEF Read
  <1>8. ~after.assisted
    BY <1>3 DEF JobHeld, Placed
  <1> HIDE DEF reads, k
  <1>9. Working(after)
    BY <1>3, <1>5 DEF JobHeld, Working
  <1>10. Placed(after)
    <2>1. Range(after.left) \cap DOMAIN after.reads = {}
      BY <1>3, <1>6, <1>7 DEF JobHeld, Placed
    <2>2. Range(after.left) \cup DOMAIN after.reads
            = Range(Queries(after.branch, after.request.q, after.request.consistency))
      BY <1>3, <1>6, <1>7 DEF JobHeld, Placed
    <2>3. after.pc = "query" <=> after.left # <<>>
      BY <1>3, <1>5
    <2>4. after.pc = "model" => asksModel(after.request, after.branch, after.cites, after.reads)
      BY <1>3, <1>4
    <2>5. Listed(after.left) /\ after.reads = [n \in DOMAIN after.reads |-> after.reads[n]]
      BY <1>3, <1>6, <1>7
    <2> QED BY <1>8, <2>1, <2>2, <2>3, <2>4, <2>5 DEF Placed
  <1>11. Founded(after)
    BY <1>3 DEF JobHeld, Founded, FromStores
  <1>12. Current(after)
    <2>1. ASSUME after.began.stores = Now, NEW n \in DOMAIN after.reads
          PROVE  ReadFrom(after, n)
      <3>1. CASE n = k
        <4>1. after.reads[n] = Answered(n, graph, after.request.low, multipliers)
          BY <1>3, <1>7, <3>1 DEF k
        <4> QED BY <4>1 DEF ReadFrom
      <3>2. CASE n # k
        BY <1>3, <1>7, <2>1, <3>2 DEF JobHeld, Current, ReadFrom
      <3> QED BY <3>1, <3>2
    <2> QED BY <1>3, <2>1 DEF JobHeld, Current, FromStores
  <1> QED BY <1>5, <1>9, <1>10, <1>11, <1>12 DEF JobHeld

\* The model answers, or does not.
LEMMA ModelHeld ==
    ASSUME NEW j, JobHeld(j), j.pc = "model", NEW assisted \in BOOLEAN, NEW next,
           next = [j EXCEPT !.pc = "proof", !.assisted = assisted]
    PROVE  JobHeld(next) /\ next.pc = "proof"
  <1>1. DOMAIN j = JobFields
    BY DEF JobHeld, Working
  <1>2. /\ DOMAIN next = JobFields /\ next.left = j.left /\ next.reads = j.reads
        /\ next.op = j.op /\ next.request = j.request /\ next.proof = j.proof
        /\ next.branch = j.branch /\ next.snapshotId = j.snapshotId /\ next.began = j.began
        /\ next.assisted = assisted /\ next.cites = j.cites /\ next.pc = "proof"
    BY <1>1 DEF JobFields
  <1>3. Working(next)
    BY <1>2 DEF JobHeld, Working
  <1>4. Placed(next)
    BY <1>2 DEF JobHeld, Placed
  <1>5. Founded(next) /\ Current(next)
    BY <1>2 DEF JobHeld, Founded, Current, FromStores, ReadFrom
  <1> QED BY <1>2, <1>3, <1>4, <1>5 DEF JobHeld

\* Between the two appends a job is what it was.
LEMMA MetricsHeld ==
    ASSUME NEW j, JobHeld(j), j.pc = "proof", j.op = "ask", NEW next,
           next = [j EXCEPT !.pc = "metrics"]
    PROVE  JobHeld(next) /\ next.pc = "metrics" /\ next.op = "ask" /\ ResultOf(next) = ResultOf(j)
  <1>1. DOMAIN j = JobFields
    BY DEF JobHeld, Working
  <1>2. /\ DOMAIN next = JobFields /\ next.left = j.left /\ next.reads = j.reads
        /\ next.op = j.op /\ next.request = j.request /\ next.proof = j.proof
        /\ next.branch = j.branch /\ next.snapshotId = j.snapshotId /\ next.began = j.began
        /\ next.assisted = j.assisted /\ next.cites = j.cites /\ next.pc = "metrics"
    BY <1>1 DEF JobFields
  <1>3. Working(next)
    BY <1>2 DEF JobHeld, Working
  <1>4. Placed(next)
    BY <1>2 DEF JobHeld, Placed
  <1>5. Founded(next) /\ Current(next)
    BY <1>2 DEF JobHeld, Founded, Current, FromStores, ReadFrom
  <1> QED BY <1>2, <1>3, <1>4, <1>5 DEF JobHeld, ResultOf

\* Nothing that an execution depends on changes in a step of its handler.
LEMMA StoresStay ==
    ASSUME StoresTyped, UNCHANGED <<tree, graph, evidence, refreshState, multipliers>>,
           UNCHANGED <<edits, refreshes, adapts>>,
           refreshing' \in {refreshing, None}, requests' \in Nat, faults' \in Nat
    PROVE  StoresTyped' /\ StoresMove
  <1>1. Now \in Nat /\ adapts \in Nat /\ Now' = Now
    BY DEF StoresTyped, Now
  <1> QED BY <1>1 DEF StoresTyped, StoresMove

\* Each change of a store is counted, and leaves the stores typed.
LEMMA NextStores ==
    ASSUME StoresTyped, LogsTyped, [Next]_vars
    PROVE  StoresTyped' /\ StoresMove
  <1>1. /\ Now \in Nat /\ adapts \in Nat /\ requests \in Nat /\ faults \in Nat
        /\ edits \in Nat /\ refreshes \in Nat
    BY DEF StoresTyped, Now
  <1>2. ASSUME NEW h \in Handlers, Ask(h) \/ Replay(h)
        PROVE  StoresTyped' /\ StoresMove
    <2>1. requests' \in Nat
      BY <1>1, <1>2 DEF Ask, Replay
    <2> QED BY <1>1, <1>2, <2>1, StoresStay DEF Ask, Replay, stores
  <1>3. ASSUME NEW h \in Handlers, Step(h)
        PROVE  StoresTyped' /\ StoresMove
    BY <1>1, <1>3, StoresStay
       DEF Step, QueryAnswered, ModelAnswered, AppendProof, AppendMetrics, ReplayEnds, stores, bounds
  <1>4. CASE Adapt
    <2>1. \A rel \in Relations4 : multipliers[rel] \in Int
      <3>1. Bounded \subseteq Int
        BY DEF Bounded
      <3> QED BY <3>1 DEF StoresTyped
    <2>2. /\ DOMAIN multipliers' = Relations4
          /\ \A rel \in Relations4 : multipliers'[rel] \in Bounded
      BY <1>4, <2>1, Adapted DEF Adapt, LogsTyped, buildAdaptedContext, Relations4
    <2>3. Now' = Now /\ adapts' = adapts + 1
      BY <1>4 DEF Adapt, Now
    <2> QED BY <1>1, <1>4, <2>2, <2>3 DEF Adapt, stores, StoresTyped, StoresMove
  <1>5. CASE Retrieve
    <2>1. tree' \in Trees
      BY <1>5, ReplayAssumption DEF Retrieve, Trees
    <2>2. Now' = Now + 1
      BY <1>1, <1>5 DEF Retrieve, Now
    <2> QED BY <1>1, <1>5, <2>1, <2>2 DEF Retrieve, StoresTyped, StoresMove
  <1>6. CASE RefreshGraph \/ RefreshEvidence
    <2>1. Now' = Now + 1
      BY <1>1, <1>6 DEF RefreshGraph, RefreshEvidence, Now
    <2> QED BY <1>1, <1>6, <2>1 DEF RefreshGraph, RefreshEvidence, StoresTyped, StoresMove
  <1>7. CASE RefreshFails \/ Crash
    <2>1. faults' \in Nat
      BY <1>1, <1>7 DEF RefreshFails, Crash
    <2> QED BY <1>1, <1>7, <2>1, StoresStay DEF RefreshFails, Crash
  <1>8. CASE UNCHANGED vars
    BY <1>1, <1>8, StoresStay DEF vars, stores, bounds
  <1> QED BY <1>2, <1>3, <1>4, <1>5, <1>6, <1>7, <1>8 DEF Next

\* The result of a job is a proof.
LEMMA ResultIsProof ==
    ASSUME NEW j, JobHeld(j)
    PROVE  /\ ResultOf(j).request = j.request /\ ResultOf(j).request \in Requests
           /\ ResultOf(j).citationIds = DOMAIN j.cites /\ DOMAIN j.cites \subseteq Files
  <1>1. ResultOf(j).request = j.request /\ ResultOf(j).citationIds = DOMAIN j.cites
    BY DEF ResultOf, Respond
  <1>2. j.request \in Requests
    BY DEF JobHeld, Working
  <1>3. PICK e, t : FromStores(j, e, t)
    BY DEF JobHeld, Founded
  <1>4. DOMAIN j.cites \subseteq Files
    BY <1>2, <1>3, CitesAreFound DEF FromStores
  <1> QED BY <1>1, <1>2, <1>4

\* An execution that keeps the turn is an ask or a replay at its end.
LEMMA AtTheEnd ==
    ASSUME JobsHeld, NEW h \in Handlers, job[h].op \in {"ask", "replay"}
    PROVE  job[h] # NoJob /\ JobHeld(job[h]) /\ job[h].request \in Requests
  BY DEF JobsHeld, NoJob, JobHeld, Working

\* Logs only grow, and stay typed.
LEMMA NextLogs ==
    ASSUME StoresTyped, LogsTyped, JobsHeld, [Next]_vars
    PROVE  LogsTyped' /\ LogsGrow
  <1>1. Len(proofs) \in Nat
    BY DEF LogsTyped
  <1>2. ASSUME UNCHANGED <<proofs, runs, metricsLog>>,
               proofsTorn' \in BOOLEAN, metricsTorn' \in BOOLEAN
        PROVE  LogsTyped' /\ LogsGrow
    BY <1>1, <1>2 DEF LogsTyped, LogsGrow
  <1>3. proofsTorn \in BOOLEAN /\ metricsTorn \in BOOLEAN
    BY DEF LogsTyped
  <1>4. ASSUME NEW h \in Handlers,
               Ask(h) \/ Replay(h) \/ QueryAnswered(h) \/ ModelAnswered(h) \/ ReplayEnds(h)
        PROVE  LogsTyped' /\ LogsGrow
    BY <1>2, <1>3, <1>4 DEF Ask, Replay, QueryAnswered, ModelAnswered, ReplayEnds, logs, ghosts
  <1>5. CASE Adapt \/ Retrieve \/ RefreshGraph \/ RefreshEvidence \/ RefreshFails \/ UNCHANGED vars
    BY <1>2, <1>3, <1>5
       DEF Adapt, Retrieve, RefreshGraph, RefreshEvidence, RefreshFails, logs, ghosts, vars
  <1>6. CASE Crash
    BY <1>2, <1>3, <1>6 DEF Crash, ghosts
  <1>7. ASSUME NEW h \in Handlers, AppendProof(h) PROVE LogsTyped' /\ LogsGrow
    <2>1. CASE proofsTorn
      BY <1>2, <1>3, <1>7, <2>1 DEF AppendProof
    <2>2. CASE ~proofsTorn
      <3> DEFINE line == Proof(h)
                 run == Run(h)
      <3>1. proofs' = Append(proofs, line) /\ runs' = Append(runs, run)
        BY <1>7, <2>2 DEF AppendProof
      <3>2. JobHeld(job[h])
        BY <1>7, AtTheEnd DEF AppendProof, Running
      <3>3. line.request \in Requests /\ line.citationIds \subseteq Files
        BY <3>2, ResultIsProof DEF Proof, Result, ResultOf
      <3>4. run \in [began : Moments, ended : Moments, assisted : BOOLEAN]
        <4>1. Moment \in Moments
          BY DEF StoresTyped, Moment, Moments
        <4>2. job[h].began \in Moments /\ job[h].assisted \in BOOLEAN
          BY <3>2 DEF JobHeld, Working
        <4> QED BY <4>1, <4>2 DEF Run
      <3> HIDE DEF line, run
      <3>5. /\ proofs' \in Seq(Range(proofs')) /\ Len(proofs') = Len(proofs) + 1
            /\ DOMAIN proofs' = 1..Len(proofs) + 1 /\ DOMAIN proofs = 1..Len(proofs)
            /\ proofs'[Len(proofs) + 1] = line
            /\ \A i \in DOMAIN proofs : proofs'[i] = proofs[i]
        BY <3>1, LogGrows DEF LogsTyped
      <3>6. /\ runs' \in Seq([began : Moments, ended : Moments, assisted : BOOLEAN])
            /\ Len(runs') = Len(runs) + 1
            /\ \A i \in 1..Len(runs) : runs'[i] = runs[i]
        BY <3>1, <3>4 DEF LogsTyped
      <3>7. \A i \in DOMAIN proofs' : proofs'[i].request \in Requests
                                      /\ proofs'[i].citationIds \subseteq Files
        BY <1>1, <3>3, <3>5 DEF LogsTyped
      <3>8. LogsGrow
        BY <1>1, <3>5, <3>6 DEF LogsGrow, LogsTyped
      <3>9. UNCHANGED <<proofsTorn, metricsLog, metricsTorn>>
        BY <1>7 DEF AppendProof
      <3> QED BY <3>5, <3>6, <3>7, <3>8, <3>9 DEF LogsTyped
    <2> QED BY <2>1, <2>2
  <1>8. ASSUME NEW h \in Handlers, AppendMetrics(h) PROVE LogsTyped' /\ LogsGrow
    <2>1. UNCHANGED <<proofs, runs, proofsTorn, metricsTorn>>
      BY <1>8 DEF AppendMetrics
    <2>2. metricsLog' \in Seq(Records)
      <3>1. JobHeld(job[h])
        BY <1>8, AtTheEnd DEF AppendMetrics, Running
      <3>2. Result(h).trustLevel \in {"trusted", "conditional", "refused"}
        BY DEF Result, Respond, resolveTrustLevel
      <3>3. intent(Result(h).request.q) \in Intents
        BY <3>1, ResultIsProof, IntentIsKnown DEF Result, ResultOf, Requests
      <3> DEFINE record == [intent |-> intent(Result(h).request.q),
                            trustLevel |-> Result(h).trustLevel]
      <3>4. record \in Records
        BY <3>2, <3>3 DEF Records, Intents
      <3>5. metricsLog' = metricsLog \/ metricsLog' = Append(metricsLog, record)
        BY <1>8 DEF AppendMetrics
      <3> HIDE DEF record
      <3> QED BY <3>4, <3>5 DEF LogsTyped
    <2> QED BY <1>1, <2>1, <2>2 DEF LogsTyped, LogsGrow
  <1> QED BY <1>4, <1>5, <1>6, <1>7, <1>8 DEF Next, Step

LEMMA NextAdvances ==
    ASSUME StoresTyped, LogsTyped, JobsHeld, [Next]_vars
    PROVE  StoresTyped' /\ LogsTyped' /\ Advance
  BY NextStores, NextLogs DEF Advance

\* A handler starts on an execution, or goes on with it.
LEMMA GoesOn ==
    ASSUME StoresTyped, LogsTyped, JobsHeld, Advance, NEW h \in Handlers, NEW next,
           turn = None, Goes(h, next), JobHeld(next), next.pc \in {"query", "model", "proof"}
    PROVE  JobsHeld'
  <1>1. JobHeld(next)'
    BY StaysHeld
  <1> QED BY <1>1, OneMoves DEF Goes

\* A handler is done, or given up.
LEMMA IsDone ==
    ASSUME StoresTyped, LogsTyped, JobsHeld, Advance, NEW h \in Handlers,
           turn = h, job' = [job EXCEPT ![h] = NoJob], turn' = None
    PROVE  JobsHeld'
  <1>1. NoJob.pc = "idle"
    BY DEF NoJob
  <1> QED BY <1>1, OneMoves

\* Every step keeps the jobs.
LEMMA NextJobs ==
    ASSUME StoresTyped, LogsTyped, JobsHeld, [Next]_vars
    PROVE  JobsHeld'
  <1>1. Advance
    BY NextAdvances
  <1>2. ASSUME NEW h \in Handlers, Ask(h) PROVE JobsHeld'
    <2>1. PICK r \in Asked : Goes(h, Execution("ask", r, 0))
      BY <1>2 DEF Ask
    <2>2. turn = None /\ r \in Requests /\ 0 \in 0..Len(proofs)
      BY <1>2, ReplayAssumption DEF Ask, LogsTyped
    <2>3. PICK next : next = Execution("ask", r, 0)
      OBVIOUS
    <2>4. JobHeld(next) /\ next.pc \in {"query", "model", "proof"}
      BY <2>2, <2>3, Begins
    <2> QED BY <1>1, <2>1, <2>2, <2>3, <2>4, GoesOn
  <1>3. ASSUME NEW h \in Handlers, Replay(h) PROVE JobsHeld'
    <2>1. PICK i \in DOMAIN proofs :
            Goes(h, Execution("replay", proofs[findByProofId(i)].request, findByProofId(i)))
      BY <1>3 DEF Replay
    <2>2. PICK p : p = findByProofId(i)
      OBVIOUS
    <2>3. p \in DOMAIN proofs
      BY <2>2, FindsAProof DEF LogsTyped
    <2>4. PICK r : r = proofs[p].request
      OBVIOUS
    <2>5. turn = None /\ r \in Requests /\ p \in 0..Len(proofs)
      BY <1>3, <2>3, <2>4 DEF Replay, LogsTyped
    <2>6. PICK next : next = Execution("replay", r, p)
      OBVIOUS
    <2>7. JobHeld(next) /\ next.pc \in {"query", "model", "proof"}
      BY <2>3, <2>4, <2>5, <2>6, Begins
    <2> QED BY <1>1, <2>1, <2>2, <2>4, <2>5, <2>6, <2>7, GoesOn
  <1>4. ASSUME NEW h \in Handlers, QueryAnswered(h) PROVE JobsHeld'
    <2>1. PICK j : j = job[h]
      OBVIOUS
    <2>2. JobHeld(j) /\ j.pc = "query" /\ turn = None
      BY <1>4, <2>1 DEF QueryAnswered, JobsHeld, NoJob
    <2>3. PICK value : value = Answered(Head(j.left), graph, j.request.low, multipliers)
      OBVIOUS
    <2>4. PICK next : next = Informed(j, value)
      OBVIOUS
    <2>5. PICK after : after = Settled(next)
      OBVIOUS
    <2>6. Goes(h, after)
      BY <1>4, <2>1, <2>3, <2>4, <2>5 DEF QueryAnswered, Informed, Settled
    <2>7. JobHeld(after) /\ after.pc \in {"query", "model", "proof"}
      BY <2>2, <2>3, <2>4, <2>5, ReadsNow
    <2> QED BY <1>1, <2>2, <2>6, <2>7, GoesOn
  <1>5. ASSUME NEW h \in Handlers, ModelAnswered(h) PROVE JobsHeld'
    <2>1. PICK j : j = job[h]
      OBVIOUS
    <2>2. JobHeld(j) /\ j.pc = "model" /\ turn = None
      BY <1>5, <2>1 DEF ModelAnswered, JobsHeld, NoJob
    <2>3. PICK assisted \in BOOLEAN : Goes(h, [j EXCEPT !.pc = "proof", !.assisted = assisted])
      BY <1>5, <2>1 DEF ModelAnswered
    <2>4. PICK next : next = [j EXCEPT !.pc = "proof", !.assisted = assisted]
      OBVIOUS
    <2>5. JobHeld(next) /\ next.pc = "proof"
      BY <2>2, <2>4, ModelHeld
    <2> QED BY <1>1, <2>2, <2>3, <2>4, <2>5, GoesOn
  <1>6. ASSUME NEW h \in Handlers, AppendProof(h) PROVE JobsHeld'
    <2>1. PICK j : j = job[h]
      OBVIOUS
    <2>2. JobHeld(j) /\ j.pc = "proof" /\ j.op = "ask" /\ turn = h /\ turn' = h
      BY <1>6, <2>1, AtTheEnd DEF AppendProof, Running
    <2>3. PICK next : next = [j EXCEPT !.pc = "metrics"]
      OBVIOUS
    <2>4. job' = [job EXCEPT ![h] = next]
      BY <1>6, <2>1, <2>3 DEF AppendProof
    <2>5. JobHeld(next) /\ next.pc = "metrics"
      BY <2>2, <2>3, MetricsHeld
    <2>6. JobHeld(next)'
      BY <1>1, <2>5, StaysHeld
    <2> QED BY <1>1, <2>2, <2>4, <2>5, <2>6, OneMoves
  <1>7. ASSUME NEW h \in Handlers, AppendMetrics(h) \/ ReplayEnds(h) PROVE JobsHeld'
    BY <1>1, <1>7, IsDone DEF AppendMetrics, ReplayEnds
  <1>8. CASE Adapt \/ Retrieve \/ RefreshGraph \/ RefreshEvidence \/ RefreshFails \/ UNCHANGED vars
    <2>1. UNCHANGED <<job, turn>>
      BY <1>8 DEF Adapt, Retrieve, RefreshGraph, RefreshEvidence, RefreshFails, vars
    <2> QED BY <1>1, <2>1, NoneMoves
  <1>9. CASE Crash
    <2>1. job' = [h \in Handlers |-> NoJob] /\ turn' = None
      BY <1>9 DEF Crash
    <2>2. NoJob.pc = "idle"
      BY DEF NoJob
    <2> QED BY <2>1, <2>2, ReplayAssumption DEF JobsHeld
  <1> QED BY <1>2, <1>3, <1>4, <1>5, <1>6, <1>7, <1>8, <1>9 DEF Next, Step

\* Every step keeps the proofs.
LEMMA NextProofs ==
    ASSUME StoresTyped, LogsTyped, JobsHeld, ProofsHeld, [Next]_vars
    PROVE  ProofsHeld'
  <1>1. Advance
    BY NextAdvances
  <1>2. ASSUME NEW i \in DOMAIN proofs PROVE \E j : ProofOf(i, j)'
    <2>1. PICK j : ProofOf(i, j)
      BY DEF ProofsHeld
    <2>2. runs[i] \in [began : Moments, ended : Moments, assisted : BOOLEAN]
      <3> DEFINE R == [began : Moments, ended : Moments, assisted : BOOLEAN]
      <3>1. runs \in Seq(R) /\ Len(runs) = Len(proofs) /\ proofs \in Seq(Range(proofs))
        BY DEF LogsTyped
      <3> HIDE DEF R
      <3>2. i \in 1..Len(runs)
        BY <3>1
      <3>3. runs[i] \in R
        BY <3>1, <3>2
      <3> QED BY <3>3 DEF R
    <2>3. j.began \in Moments
      BY <2>1, <2>2 DEF ProofOf
    <2>4. j.began.stores <= Now' /\ j.began.adapts <= adapts' /\ Current(j)'
      BY <1>1, <2>1, <2>3, StaysCurrent DEF ProofOf
    <2>5. proofs'[i] = proofs[i] /\ runs'[i] = runs[i]
      BY <1>1 DEF Advance, LogsGrow
    <2> QED BY <2>1, <2>4, <2>5 DEF ProofOf
  <1>3. CASE UNCHANGED proofs
    BY <1>2, <1>3 DEF ProofsHeld
  <1>4. ASSUME NEW h \in Handlers, AppendProof(h), ~proofsTorn PROVE ProofsHeld'
    <2> PICK n : n = Len(proofs) + 1
      OBVIOUS
    <2>1. PICK j : j = job[h]
      OBVIOUS
    <2>2. JobHeld(j) /\ j.pc = "proof"
      BY <1>4, <2>1, AtTheEnd DEF AppendProof, Running
    <2>3. /\ proofs' = Append(proofs, ResultOf(j))
          /\ runs' = Append(runs, Run(h))
          /\ Run(h).began = j.began /\ Run(h).assisted = j.assisted
      BY <1>4, <2>1 DEF AppendProof, Proof, Result, ResultOf, Run
    <2>4. /\ DOMAIN proofs' = 1..n /\ DOMAIN proofs = 1..Len(proofs) /\ Len(proofs) \in Nat
          /\ proofs'[n] = ResultOf(j)
      BY <2>3, LogGrows DEF LogsTyped
    <2>5. runs'[n] = Run(h)
      BY <2>3, <2>4 DEF LogsTyped
    <2>6. j.began.stores <= Now' /\ j.began.adapts <= adapts' /\ Current(j)'
      BY <1>1, <2>2, StaysCurrent DEF JobHeld, Working
    <2>7. Placed(j) /\ j.left = <<>> /\ Founded(j)
      BY <2>2 DEF JobHeld, Placed
    <2>8. ProofOf(n, j)'
      BY <2>3, <2>4, <2>5, <2>6, <2>7 DEF ProofOf
    <2>9. \A i \in DOMAIN proofs' : i \in DOMAIN proofs \/ i = n
      BY <2>4
    <2> QED BY <1>2, <2>8, <2>9 DEF ProofsHeld
  <1>5. ASSUME NEW h \in Handlers, Ask(h) \/ Replay(h) \/ Step(h), ~(AppendProof(h) /\ ~proofsTorn)
        PROVE  UNCHANGED proofs
    BY <1>5 DEF Ask, Replay, Step, QueryAnswered, ModelAnswered, AppendProof, AppendMetrics,
                ReplayEnds, logs
  <1>6. CASE Adapt \/ Retrieve \/ RefreshGraph \/ RefreshEvidence \/ RefreshFails \/ Crash
             \/ UNCHANGED vars
    BY <1>3, <1>6 DEF Adapt, Retrieve, RefreshGraph, RefreshEvidence, RefreshFails, Crash, logs, vars
  <1> QED BY <1>3, <1>4, <1>5, <1>6 DEF Next

\* Of an ask between its appends there is one at most, and none when a handler goes on.
LEMMA NoneOwing ==
    ASSUME JobsHeld', NEW h \in Handlers, h \in DOMAIN job, NEW next, Goes(h, next)
    PROVE  \A g \in Handlers : ~Owing(g)'
  <1>1. job'[h] = next
    BY DEF Goes
  <1>2. ASSUME NEW g \in Handlers, Owing(g)' PROVE FALSE
    <2>1. turn' = g /\ job'[g].pc = "metrics"
      BY <1>2 DEF JobsHeld, Owing, Running
    <2>2. turn' = h /\ next.pc = "proof"
      BY <2>1, ReplayAssumption DEF Goes
    <2> QED BY <1>1, <2>1, <2>2
  <1> QED BY <1>2

LEMMA OwedIsOne == Owed \in {0, 1} /\ (Owed = 1 <=> \E h \in Handlers : Owing(h))
  BY DEF Owed

LEMMA StillProven ==
    ASSUME LogsTyped, Proven, proofsTorn => proofsTorn', UNCHANGED <<proofs, metricsLog, answered>>,
           \A g \in Handlers : ~Owing(g)'
    PROVE  Proven'
  <1>1. Len(metricsLog) \in Nat /\ Len(proofs) \in Nat
    BY DEF LogsTyped
  <1>2. Owed' = 0
    BY DEF Owed
  <1>3. ASSUME ~proofsTorn
        PROVE  \E earlier \in FirstLogs : Len(metricsLog) + 0 <= Len(earlier) + Len(proofs)
    <2>1. PICK earlier \in FirstLogs : Len(metricsLog) + Owed <= Len(earlier) + Len(proofs)
      BY <1>3 DEF Proven
    <2>2. Len(earlier) \in Nat
      BY ReplayAssumption
    <2>3. PICK owed \in {0, 1} : owed = Owed
      BY OwedIsOne
    <2>4. Len(metricsLog) + 0 <= Len(earlier) + Len(proofs)
      BY <1>1, <2>1, <2>2, <2>3
    <2> QED BY <2>4
  <1> QED BY <1>2, <1>3 DEF Proven

\* Every step keeps what is owed to the logs.
LEMMA NextProven ==
    ASSUME StoresTyped, LogsTyped, JobsHeld, Proven, [Next]_vars
    PROVE  Proven'
  <1>1. JobsHeld' /\ DOMAIN job = Handlers
    BY NextJobs DEF JobsHeld
  <1>2. Len(metricsLog) \in Nat /\ Len(proofs) \in Nat
    BY DEF LogsTyped
  <1>3. ASSUME NEW h \in Handlers, Ask(h) \/ Replay(h) \/ QueryAnswered(h) \/ ModelAnswered(h)
        PROVE  Proven'
    <2>1. UNCHANGED <<proofs, proofsTorn, metricsLog, answered>>
      BY <1>3 DEF Ask, Replay, QueryAnswered, ModelAnswered, logs, ghosts
    <2>2. \E next : Goes(h, next)
      BY <1>3 DEF Ask, Replay, QueryAnswered, ModelAnswered
    <2>3. \A g \in Handlers : ~Owing(g)'
      BY <1>1, <2>2, NoneOwing
    <2> QED BY <2>1, <2>3, StillProven
  <1>4. ASSUME turn' = None PROVE \A g \in Handlers : ~Owing(g)'
    BY <1>1, <1>4, ReplayAssumption DEF JobsHeld, Owing, Running
  <1>5. ASSUME NEW h \in Handlers, ReplayEnds(h) PROVE Proven'
    BY <1>4, <1>5, StillProven DEF ReplayEnds, logs
  <1>6. CASE Crash
    BY <1>4, <1>6, StillProven DEF Crash, ghosts
  <1>7. CASE Adapt \/ Retrieve \/ RefreshGraph \/ RefreshEvidence \/ RefreshFails \/ UNCHANGED vars
    <2>1. UNCHANGED <<proofs, proofsTorn, metricsLog, answered, job>>
      BY <1>7 DEF Adapt, Retrieve, RefreshGraph, RefreshEvidence, RefreshFails, logs, ghosts, vars
    <2> QED BY <2>1 DEF Proven, Owed, Owing, Running, Result
  <1>8. ASSUME NEW h \in Handlers, AppendProof(h), ~proofsTorn PROVE Proven'
    <2>1. PICK j : j = job[h]
      OBVIOUS
    <2>2. JobHeld(j) /\ j.pc = "proof" /\ j.op = "ask" /\ turn = h /\ turn' = h
      BY <1>8, <2>1, AtTheEnd DEF AppendProof, Running
    <2>3. PICK next : next = [j EXCEPT !.pc = "metrics"]
      OBVIOUS
    <2>4. job'[h] = next /\ ResultOf(next) = ResultOf(j)
      BY <1>1, <1>8, <2>1, <2>2, <2>3, MetricsHeld DEF AppendProof
    <2>5. Result(h)' = ResultOf(j)
      BY <2>4 DEF Result, ResultOf
    <2>6. proofs' = Append(proofs, ResultOf(j)) /\ UNCHANGED <<metricsLog, answered, proofsTorn>>
      BY <1>8, <2>1 DEF AppendProof, Proof, Result, ResultOf
    <2>7. /\ Len(proofs') = Len(proofs) + 1
          /\ DOMAIN proofs' = 1..Len(proofs) + 1 /\ DOMAIN proofs = 1..Len(proofs)
          /\ proofs'[Len(proofs) + 1] = ResultOf(j)
          /\ \A i \in DOMAIN proofs : proofs'[i] = proofs[i]
      BY <2>6, LogGrows DEF LogsTyped
    <2>8. \A a \in answered' : \E i \in DOMAIN proofs' : proofs'[i].proofId = a.proofId
      BY <1>2, <1>8, <2>6, <2>7 DEF Proven
    <2>9. ASSUME NEW g \in Handlers, Owing(g)'
          PROVE  \E i \in DOMAIN proofs' : proofs'[i].proofId = Result(g)'.proofId
      <3>1. g = h
        BY <1>1, <2>2, <2>9 DEF JobsHeld, Owing, Running
      <3>2. Len(proofs) + 1 \in DOMAIN proofs'
        BY <1>2, <2>7
      <3> QED BY <2>5, <2>7, <3>1, <3>2
    <2>10. ~ \E g \in Handlers : Owing(g)
      BY <2>1, <2>2 DEF JobsHeld, Owing, Running
    <2>11. PICK earlier \in FirstLogs : Len(metricsLog) + Owed <= Len(earlier) + Len(proofs)
      BY <1>8 DEF Proven
    <2>12. Len(earlier) \in Nat
      BY ReplayAssumption
    <2>13. Owed = 0 /\ (Owed' = 0 \/ Owed' = 1)
      BY <2>10 DEF Owed
    <2>14. Len(metricsLog') + Owed' <= Len(earlier) + Len(proofs')
      <3>1. Len(metricsLog) + 1 <= Len(earlier) + (Len(proofs) + 1)
        BY <1>2, <2>11, <2>12, <2>13
      <3>2. Len(metricsLog) + 0 <= Len(earlier) + (Len(proofs) + 1)
        BY <1>2, <2>11, <2>12, <2>13
      <3>3. Len(metricsLog') = Len(metricsLog)
        BY <2>6
      <3> QED BY <2>7, <2>13, <3>1, <3>2, <3>3
    <2> QED BY <2>8, <2>9, <2>14 DEF Proven
  <1>9. ASSUME NEW h \in Handlers, AppendProof(h), proofsTorn PROVE Proven'
    BY <1>9 DEF AppendProof, Proven
  <1>10. ASSUME NEW h \in Handlers, AppendMetrics(h), ~proofsTorn PROVE Proven'
    <2>1. Owing(h) /\ Owed = 1
      BY <1>10 DEF AppendMetrics, Owing, Owed
    <2>2. \A g \in Handlers : ~Owing(g)'
      BY <1>4, <1>10 DEF AppendMetrics
    <2>3. Owed' = 0
      BY <2>2 DEF Owed
    <2>4. UNCHANGED <<proofs, proofsTorn>>
      BY <1>10 DEF AppendMetrics
    <2>5. \A a \in answered' : a \in answered \/ a.proofId = Result(h).proofId
      BY <1>10 DEF AppendMetrics
    <2>6. \A a \in answered' : \E i \in DOMAIN proofs' : proofs'[i].proofId = a.proofId
      BY <1>10, <2>1, <2>4, <2>5 DEF Proven
    <2>7. Len(metricsLog') = Len(metricsLog) \/ Len(metricsLog') = Len(metricsLog) + 1
      BY <1>10 DEF AppendMetrics, LogsTyped
    <2>8. PICK earlier \in FirstLogs : Len(metricsLog) + Owed <= Len(earlier) + Len(proofs)
      BY <1>10 DEF Proven
    <2>9. Len(earlier) \in Nat
      BY ReplayAssumption
    <2>10. Len(metricsLog') + Owed' <= Len(earlier) + Len(proofs')
      BY <1>2, <2>1, <2>3, <2>4, <2>7, <2>8, <2>9
    <2> QED BY <2>2, <2>6, <2>10 DEF Proven
  <1>11. ASSUME NEW h \in Handlers, AppendMetrics(h), proofsTorn PROVE Proven'
    BY <1>11 DEF AppendMetrics, Proven
  <1> QED BY <1>3, <1>5, <1>6, <1>7, <1>8, <1>9, <1>10, <1>11 DEF Next, Step

------------------------------------------------------------------------------
(* The theorems.                                                           *)

LEMMA InitHeld == Init => Held /\ Proven
  <1> SUFFICES ASSUME Init PROVE Held /\ Proven
    OBVIOUS
  <1>1. StoresTyped
    <2>1. tree \in Trees
      BY ReplayAssumption DEF Init, Trees
    <2>2. \A rel \in Relations4 : multipliers[rel] \in Bounded
      <3>1. 10000 \in Bounded
        BY DEF Bounded
      <3> QED BY <3>1 DEF Init, DefaultMultipliers
    <2>3. DOMAIN multipliers = Relations4
      BY DEF Init, DefaultMultipliers
    <2> QED BY <2>1, <2>2, <2>3 DEF Init, StoresTyped
  <1>2. LogsTyped
    <2>1. metricsLog \in Seq(Records)
      BY ReplayAssumption DEF Init
    <2>2. /\ <<>> \in Seq(Range(<<>>)) /\ DOMAIN <<>> = {} /\ Len(<<>>) = Len(<<>>)
          /\ <<>> \in Seq([began : Moments, ended : Moments, assisted : BOOLEAN])
      OBVIOUS
    <2> QED BY <2>1, <2>2 DEF Init, LogsTyped
  <1>3. JobsHeld
    <2>1. NoJob.pc = "idle"
      BY DEF NoJob
    <2> QED BY <2>1, ReplayAssumption DEF Init, JobsHeld
  <1>4. ProofsHeld
    BY DEF Init, ProofsHeld
  <1>5. Proven
    <2>1. \A g \in Handlers : ~Owing(g)
      BY DEF Init, Owing, Running, NoJob
    <2>2. Owed = 0
      BY <2>1 DEF Owed
    <2>3. Len(metricsLog) \in Nat /\ Len(proofs) = 0
      BY ReplayAssumption DEF Init
    <2>4. metricsLog \in FirstLogs /\ Len(metricsLog) + Owed <= Len(metricsLog) + Len(proofs)
      BY <2>2, <2>3 DEF Init
    <2> QED BY <2>1, <2>4 DEF Init, Proven
  <1> QED BY <1>1, <1>2, <1>3, <1>4, <1>5 DEF Held

LEMMA NextHeld ==
    ASSUME Held, [Next]_vars
    PROVE  Held'
  BY NextAdvances, NextJobs, NextProofs DEF Held

\* Every execution under way is one that the stores could have given, and so is every
\* proof in the log: its branch, its evidence and its answers are those of the present
\* as long as nothing has changed since it began (AskService.execute).
THEOREM ExecutionInvariant == Spec => []Held
  <1>1. Init => Held
    BY InitHeld
  <1>2. Held /\ [Next]_vars => Held'
    BY NextHeld
  <1> QED BY <1>1, <1>2, PTL DEF Spec

\* Every variable keeps its type.
THEOREM AskTypes == Spec => []TypeOK
  <1>1. Held => TypeOK
    <2> SUFFICES ASSUME Held PROVE TypeOK
      OBVIOUS
    <2>1. \A i \in DOMAIN metricsLog : metricsLog[i] \in Records
      <3>1. metricsLog \in Seq(Records)
        BY DEF Held, LogsTyped
      <3> QED BY <3>1
    <2>2. ASSUME NEW h \in Handlers
          PROVE  /\ job[h].op \in {"none", "ask", "replay"}
                 /\ job[h].pc \in {"idle", "query", "model", "proof", "metrics"}
                 /\ job[h].op # "none" =>
                     /\ job[h].request \in Requests /\ job[h].began \in Moments
                     /\ Range(job[h].left) \cap DOMAIN job[h].reads = {}
                     /\ job[h].proof \in 0..Len(proofs)
      <3>1. CASE job[h] = NoJob
        BY <3>1 DEF NoJob
      <3>2. CASE job[h] # NoJob
        <4>1. JobHeld(job[h])
          BY <3>2 DEF Held, JobsHeld
        <4> QED BY <4>1 DEF JobHeld, Working, Placed
      <3> QED BY <3>1, <3>2
    <2>3. \A rel \in Relations4 : multipliers[rel] \in 8000..12500
      BY DEF Held, StoresTyped, Bounded
    <2>4. turn \in Handlers \cup {None}
      BY DEF Held, JobsHeld
    <2> QED BY <2>1, <2>2, <2>3, <2>4 DEF Held, StoresTyped, LogsTyped, TypeOK
  <1> QED BY <1>1, ExecutionInvariant, PTL

\* An answer is given only once its proof can be looked up, and no answer is counted
\* without one, as long as no append to the proof log was cut off (AskService.ask).
THEOREM EveryAnswerIsProven == Spec => []AnsweredIsProven
  <1>1. Init => Proven
    BY InitHeld
  <1>2. Held /\ Proven /\ [Next]_vars => Proven'
    BY NextProven DEF Held
  <1>3. Held /\ Proven => AnsweredIsProven
    <2> SUFFICES ASSUME Held, Proven, ~proofsTorn
                 PROVE  \E earlier \in FirstLogs : Len(metricsLog) <= Len(earlier) + Len(proofs)
      BY DEF Proven, AnsweredIsProven
    <2>1. Len(metricsLog) \in Nat /\ Len(proofs) \in Nat
      BY DEF Held, LogsTyped
    <2>2. PICK earlier \in FirstLogs : Len(metricsLog) + Owed <= Len(earlier) + Len(proofs)
      BY DEF Proven
    <2>3. Len(earlier) \in Nat
      BY ReplayAssumption
    <2>4. PICK owed \in {0, 1} : owed = Owed
      BY OwedIsOne
    <2>5. Len(metricsLog) <= Len(earlier) + Len(proofs)
      BY <2>1, <2>2, <2>3, <2>4
    <2> QED BY <2>5
  <1> QED BY <1>1, <1>2, <1>3, ExecutionInvariant, PTL DEF Spec

\* What the execution of a question about the latest retrieve reads and cites.
LEMMA LatestFounded ==
    ASSUME NEW j, Placed(j), j.left = <<>>, Founded(j), j.request \in Requests,
           j.request.q.latest, j.branch \notin Refusals
    PROVE  /\ DOMAIN j.reads = {}
           /\ (\E s \in j.request.scope : HasRule(s)) => DOMAIN j.cites \subseteq Citable(j.request)
  <1>1. PICK e, t : FromStores(j, e, t)
    BY DEF Founded
  <1>2. PICK r, hits, branch :
          r = j.request /\ hits = searchEvidence(e, r.scope) /\ branch = j.branch
    OBVIOUS
  <1>3. /\ r \in Requests /\ branch = Branch(r.q, r.scope, hits) /\ branch \notin Refusals
        /\ r.q.latest /\ DOMAIN j.cites = DOMAIN citationHits(branch, r.q, r.scope, hits, e, t)
    BY <1>1, <1>2 DEF FromStores
  <1>4. r.scope # None /\ branch \in EvidenceBranches
    <2>1. r.q \in Questions /\ r.scope \in {None} \cup SUBSET Selections
      BY <1>3 DEF Requests
    <2> QED BY <1>3, <2>1, LatestBranch
  <1>5. DOMAIN j.reads = {}
    <2>1. Queries(branch, r.q, r.consistency) = <<>>
      BY <1>4 DEF EvidenceBranches, Queries
    <2>2. DOMAIN j.reads \subseteq Range(Queries(branch, r.q, r.consistency))
      BY <1>2 DEF Placed
    <2>3. Range(<<>>) = {}
      BY DEF Range
    <2> QED BY <2>1, <2>2, <2>3
  <1>6. (\E s \in r.scope : HasRule(s)) => DOMAIN j.cites \subseteq Citable(r)
    BY <1>2, <1>3, <1>4, CitesAreFound
  <1> QED BY <1>2, <1>5, <1>6

\* What an execution that is over shows of how it was founded.
LEMMA Accepted ==
    ASSUME GroundingThreshold > 6400,
           NEW j, Placed(j), ResultOf(j).trustLevel # "refused"
    PROVE  DOMAIN j.cites # {} /\ j.branch \notin Refusals
  <1>1. DOMAIN j.cites # {} /\ (j.branch \notin Refusals \/ j.assisted)
    <2>1. PICK r, branch, cites, reads, assisted, id :
            /\ r = j.request /\ branch = j.branch /\ cites = j.cites /\ reads = j.reads
            /\ assisted = j.assisted /\ id = j.snapshotId
      OBVIOUS
    <2>2. Respond(r, branch, cites, reads, assisted, id).trustLevel # "refused"
      BY <2>1 DEF ResultOf
    <2>3. ~(DOMAIN cites = {} \/ (branch \in Refusals /\ ~assisted))
      BY <2>2, Refused
    <2> QED BY <2>1, <2>3
  <1>2. j.assisted => j.branch \notin Refusals
    BY NoModel DEF Placed
  <1> QED BY <1>1, <1>2

\* What an answered ask was.
LEMMA WhoAnswers ==
    ASSUME Held, NEW h \in Handlers, AppendMetrics(h)
    PROVE  \E j : /\ JobHeld(j) /\ j.left = <<>>
                  /\ answered' = answered \cup
                       {[proofId |-> ResultOf(j).proofId, request |-> ResultOf(j).request,
                         trustLevel |-> ResultOf(j).trustLevel,
                         citationIds |-> ResultOf(j).citationIds,
                         branch |-> j.branch, queries |-> DOMAIN j.reads]}
  <1>1. PICK j : j = job[h]
    OBVIOUS
  <1>2. JobHeld(j) /\ j.pc = "metrics"
    BY <1>1, AtTheEnd DEF AppendMetrics, Running, Held
  <1>3. j.left = <<>>
    BY <1>2 DEF JobHeld, Placed
  <1> QED BY <1>1, <1>2, <1>3 DEF AppendMetrics, Result, ResultOf

\* Nothing else answers.
LEMMA OthersDoNot ==
    ASSUME [Next]_vars, ~ \E h \in Handlers : AppendMetrics(h)
    PROVE  UNCHANGED answered
  BY DEF Next, Step, vars, ghosts, Ask, Replay, QueryAnswered, ModelAnswered, AppendProof, ReplayEnds,
         Adapt, Retrieve, RefreshGraph, RefreshEvidence, RefreshFails, Crash

\* With a grounding threshold above what a refusal can score, an answer that is not
\* refused rests on evidence, and none of execute's own refusals gets past the policy
\* envelope (buildMetrics, resolveTrustLevel).
THEOREM AcceptedIsGrounded ==
    ASSUME GroundingThreshold > 6400
    PROVE  Spec => []TrustedIsGrounded
  <1>1. Init => TrustedIsGrounded
    BY DEF Init, TrustedIsGrounded
  <1>2. Held /\ TrustedIsGrounded /\ [Next]_vars => TrustedIsGrounded'
    <2> SUFFICES ASSUME Held, TrustedIsGrounded, [Next]_vars PROVE TrustedIsGrounded'
      OBVIOUS
    <2>1. ASSUME NEW h \in Handlers, AppendMetrics(h) PROVE TrustedIsGrounded'
      <3>1. PICK j : /\ JobHeld(j) /\ j.left = <<>>
                     /\ answered' = answered \cup
                          {[proofId |-> ResultOf(j).proofId, request |-> ResultOf(j).request,
                            trustLevel |-> ResultOf(j).trustLevel,
                            citationIds |-> ResultOf(j).citationIds,
                            branch |-> j.branch, queries |-> DOMAIN j.reads]}
        BY <2>1, WhoAnswers
      <3>2. ResultOf(j).trustLevel # "refused" =>
              ResultOf(j).citationIds # {} /\ j.branch \notin Refusals
        BY <3>1, Accepted, ResultIsProof DEF JobHeld
      <3> QED BY <3>1, <3>2 DEF TrustedIsGrounded
    <2>2. CASE UNCHANGED answered
      BY <2>2 DEF TrustedIsGrounded
    <2> QED BY <2>1, <2>2, OthersDoNot
  <1> QED BY <1>1, <1>2, ExecutionInvariant, PTL DEF Spec

\* With the same threshold, a question restricted to the latest retrieve is never
\* answered by a query of the whole graph; and when its scope has any rule, all it
\* cites is in the scope or is the flow it names (execute, buildEvidenceSearchOptions).
THEOREM LatestStaysInScope ==
    ASSUME GroundingThreshold > 6400
    PROVE  Spec => []LatestNeverGraphWide
  <1>1. Init => LatestNeverGraphWide
    BY DEF Init, LatestNeverGraphWide, LatestAccepted
  <1>2. Held /\ LatestNeverGraphWide /\ [Next]_vars => LatestNeverGraphWide'
    <2> SUFFICES ASSUME Held, LatestNeverGraphWide, [Next]_vars PROVE LatestNeverGraphWide'
      OBVIOUS
    <2>1. ASSUME NEW h \in Handlers, AppendMetrics(h) PROVE LatestNeverGraphWide'
      <3>1. PICK j : /\ JobHeld(j) /\ j.left = <<>>
                     /\ answered' = answered \cup
                          {[proofId |-> ResultOf(j).proofId, request |-> ResultOf(j).request,
                            trustLevel |-> ResultOf(j).trustLevel,
                            citationIds |-> ResultOf(j).citationIds,
                            branch |-> j.branch, queries |-> DOMAIN j.reads]}
        BY <2>1, WhoAnswers
      <3> DEFINE scope == j.request.scope
                 q == j.request.q
      <3>2. /\ ResultOf(j).request = j.request /\ j.request \in Requests
            /\ ResultOf(j).citationIds = DOMAIN j.cites
        BY <3>1, ResultIsProof
      <3>3. ASSUME q.latest, ResultOf(j).trustLevel # "refused"
            PROVE  /\ DOMAIN j.reads = {}
                   /\ (\E s \in scope : HasRule(s)) => DOMAIN j.cites \subseteq Citable(j.request)
        <4>1. j.branch \notin Refusals
          BY <3>1, <3>3, Accepted DEF JobHeld
        <4> QED BY <3>1, <3>2, <3>3, <4>1, LatestFounded DEF JobHeld
      <3>4. \A a \in LatestAccepted' : a \in LatestAccepted \/
              /\ a.request = j.request /\ q.latest /\ ResultOf(j).trustLevel # "refused"
              /\ a.citationIds = DOMAIN j.cites /\ a.queries = DOMAIN j.reads
        BY <3>1, <3>2 DEF LatestAccepted
      <3> QED BY <3>3, <3>4 DEF LatestNeverGraphWide, Citable
    <2>2. CASE UNCHANGED answered
      BY <2>2 DEF LatestNeverGraphWide, LatestAccepted
    <2> QED BY <2>1, <2>2, OthersDoNot
  <1> QED BY <1>1, <1>2, ExecutionInvariant, PTL DEF Spec

\* The two executions that a replay compares, when no store has changed since the
\* first of them began.
LEMMA TwoExecutions ==
    ASSUME NEW j, NEW w, Placed(j), Placed(w), j.left = <<>>, w.left = <<>>,
           Current(j), Current(w), j.request = w.request,
           j.began.stores = Now, w.began.stores = Now
    PROVE  /\ j.branch = w.branch /\ j.cites = w.cites /\ j.snapshotId = w.snapshotId
           /\ Alike(j.reads, w.reads)
           /\ DOMAIN j.reads = Range(Queries(j.branch, j.request.q, j.request.consistency))
           /\ j.began.adapts = adapts /\ w.began.adapts = adapts => j.reads = w.reads
  <1>1. j.branch = w.branch /\ j.cites = w.cites /\ j.snapshotId = w.snapshotId
    BY DEF Current, FromStores
  <1>2. /\ DOMAIN j.reads = Range(Queries(j.branch, j.request.q, j.request.consistency))
        /\ DOMAIN w.reads = DOMAIN j.reads
    <2>1. Range(<<>>) = {}
      BY DEF Range
    <2> QED BY <1>1, <2>1 DEF Placed
  <1>3. ASSUME NEW k \in DOMAIN j.reads
        PROVE  \E m, n : /\ j.reads[k] = Answered(k, graph, j.request.low, m)
                         /\ w.reads[k] = Answered(k, graph, j.request.low, n)
                         /\ j.began.adapts = adapts => m = multipliers
                         /\ w.began.adapts = adapts => n = multipliers
    <2>1. ReadFrom(j, k) /\ ReadFrom(w, k)
      BY <1>2 DEF Current
    <2> QED BY <2>1 DEF ReadFrom
  <1>4. ASSUME NEW k \in DOMAIN j.reads
        PROVE  IF k \in Permissions THEN j.reads[k] = w.reads[k]
                                    ELSE DOMAIN j.reads[k] = DOMAIN w.reads[k]
    BY <1>3, AnswersAlike DEF Permissions
  <1>5. ASSUME j.began.adapts = adapts, w.began.adapts = adapts PROVE j.reads = w.reads
    <2>1. \A k \in DOMAIN j.reads : j.reads[k] = w.reads[k]
      BY <1>3, <1>5
    <2>2. /\ j.reads = [k \in DOMAIN j.reads |-> j.reads[k]]
          /\ w.reads = [k \in DOMAIN w.reads |-> w.reads[k]]
      BY DEF Placed
    <2> QED BY <1>2, <2>1, <2>2
  <1> QED BY <1>1, <1>2, <1>4, <1>5 DEF Alike

\* What a verdict is about.
LEMMA WhoReplays ==
    ASSUME Held, NEW h \in Handlers, ReplayEnds(h)
    PROVE  \E j, w, v :
             /\ Placed(j) /\ Placed(w) /\ j.left = <<>> /\ w.left = <<>>
             /\ Current(j) /\ Current(w) /\ j.request = w.request
             /\ verdicts' = verdicts \cup {v}
             /\ v.sameStores => j.began.stores = Now /\ w.began.stores = Now
             /\ v.sameMultipliers => j.began.adapts = adapts /\ w.began.adapts = adapts
             /\ v.sameModel => w.assisted = j.assisted
             /\ v.matched <=> /\ corePayload(ResultOf(j)) = corePayload(ResultOf(w))
                              /\ ResultOf(j).snapshotId = ResultOf(w).snapshotId
             /\ v.sameOutcome <=>
                  /\ ResultOf(j).deterministicAnswer = ResultOf(w).deterministicAnswer
                  /\ ResultOf(j).trustLevel = ResultOf(w).trustLevel
                  /\ ResultOf(j).metrics = ResultOf(w).metrics
  <1>1. PICK j : j = job[h]
    OBVIOUS
  <1>2. JobHeld(j) /\ j.op = "replay" /\ j.pc = "proof"
    BY <1>1, AtTheEnd DEF ReplayEnds, Running, Held
  <1>3. j.proof \in DOMAIN proofs /\ proofs[j.proof].request = j.request
    BY <1>2 DEF JobHeld, Working
  <1>4. PICK w : ProofOf(j.proof, w)
    BY <1>3 DEF Held, ProofsHeld
  <1>5. w.request = j.request
    BY <1>3, <1>4 DEF ProofOf, ResultOf, Respond
  <1>6. PICK was : was = runs[j.proof]
    OBVIOUS
  <1>7. w.began = was.began /\ w.assisted = was.assisted
    BY <1>4, <1>6 DEF ProofOf
  <1>8. /\ Run(h).began = j.began /\ Run(h).ended.stores = Now /\ Run(h).ended.adapts = adapts
    BY <1>1 DEF Run, Moment, Now
  <1>9. PICK v :
          /\ verdicts' = verdicts \cup {v}
          /\ v.sameStores <=> {was.began.stores, was.ended.stores, Run(h).began.stores,
                               Run(h).ended.stores} = {was.began.stores}
          /\ v.sameMultipliers <=> {was.began.adapts, was.ended.adapts, Run(h).began.adapts,
                                    Run(h).ended.adapts} = {was.began.adapts}
          /\ v.sameModel <=> was.assisted = j.assisted
          /\ v.matched <=> /\ corePayload(ResultOf(j)) = corePayload(proofs[j.proof])
                           /\ ResultOf(j).snapshotId = proofs[j.proof].snapshotId
          /\ v.sameOutcome <=>
               /\ ResultOf(j).deterministicAnswer = proofs[j.proof].deterministicAnswer
               /\ ResultOf(j).trustLevel = proofs[j.proof].trustLevel
               /\ ResultOf(j).metrics = proofs[j.proof].metrics
    <2> DEFINE original == proofs[job[h].proof]
               first == runs[job[h].proof]
               matched == /\ corePayload(Result(h)) = corePayload(original)
                          /\ Result(h).snapshotId = original.snapshotId
               outcome == /\ Result(h).deterministicAnswer = original.deterministicAnswer
                          /\ Result(h).trustLevel = original.trustLevel
                          /\ Result(h).metrics = original.metrics
               stay == {first.began.stores, first.ended.stores, Run(h).began.stores,
                        Run(h).ended.stores} = {first.began.stores}
               keep == {first.began.adapts, first.ended.adapts, Run(h).began.adapts,
                        Run(h).ended.adapts} = {first.began.adapts}
               model == first.assisted = job[h].assisted
               v == [matched |-> matched, sameOutcome |-> outcome, sameStores |-> stay,
                     sameMultipliers |-> keep, sameModel |-> model]
    <2>1. verdicts' = verdicts \cup {v}
      BY DEF ReplayEnds
    <2>2. Result(h) = ResultOf(j) /\ original = proofs[j.proof] /\ first = was
      BY <1>1, <1>6 DEF Result, ResultOf
    <2>3. /\ matched <=> /\ corePayload(ResultOf(j)) = corePayload(proofs[j.proof])
                         /\ ResultOf(j).snapshotId = proofs[j.proof].snapshotId
          /\ outcome <=>
               /\ ResultOf(j).deterministicAnswer = proofs[j.proof].deterministicAnswer
               /\ ResultOf(j).trustLevel = proofs[j.proof].trustLevel
               /\ ResultOf(j).metrics = proofs[j.proof].metrics
          /\ stay <=> {was.began.stores, was.ended.stores, Run(h).began.stores,
                       Run(h).ended.stores} = {was.began.stores}
          /\ keep <=> {was.began.adapts, was.ended.adapts, Run(h).began.adapts,
                       Run(h).ended.adapts} = {was.began.adapts}
          /\ model <=> was.assisted = j.assisted
      BY <1>1, <2>2
    <2> HIDE DEF matched, outcome, stay, keep, model
    <2>4. /\ v.matched = matched /\ v.sameOutcome = outcome /\ v.sameStores = stay
          /\ v.sameMultipliers = keep /\ v.sameModel = model
      BY Zenon
    <2> HIDE DEF v
    <2> QED BY <2>1, <2>3, <2>4
  <1>10. proofs[j.proof] = ResultOf(w)
    BY <1>4 DEF ProofOf
  <1>11. v.sameStores => j.began.stores = Now /\ w.began.stores = Now
    BY <1>7, <1>8, <1>9
  <1>12. v.sameMultipliers => j.began.adapts = adapts /\ w.began.adapts = adapts
    BY <1>7, <1>8, <1>9
  <1>13. /\ Placed(j) /\ Placed(w) /\ j.left = <<>> /\ w.left = <<>>
         /\ Current(j) /\ Current(w)
    BY <1>2, <1>4 DEF JobHeld, ProofOf, Placed
  <1>14. v.sameModel => w.assisted = j.assisted
    BY <1>7, <1>9
  <1> QED BY <1>5, <1>9, <1>10, <1>11, <1>12, <1>13, <1>14

LEMMA OthersDoNotReplay ==
    ASSUME [Next]_vars, ~ \E h \in Handlers : ReplayEnds(h)
    PROVE  UNCHANGED verdicts
  BY DEF Next, Step, vars, ghosts, Ask, Replay, QueryAnswered, ModelAnswered, AppendProof,
         AppendMetrics, Adapt, Retrieve, RefreshGraph, RefreshEvidence, RefreshFails, Crash

\* Adapting the multipliers between an ask and its replay may reorder the edges that a
\* packet names, and changes neither the answer, nor its metrics, nor its trust level
\* (AnalysisService ranks by score and filters by confidence).
THEOREM AdaptationOnlyReorders == Spec => []AdaptOnlyReorders
  <1>1. Init => AdaptOnlyReorders
    BY DEF Init, AdaptOnlyReorders
  <1>2. Held /\ AdaptOnlyReorders /\ [Next]_vars => AdaptOnlyReorders'
    <2> SUFFICES ASSUME Held, AdaptOnlyReorders, [Next]_vars PROVE AdaptOnlyReorders'
      OBVIOUS
    <2>1. ASSUME NEW h \in Handlers, ReplayEnds(h) PROVE AdaptOnlyReorders'
      <3>1. PICK j, w, v :
              /\ Placed(j) /\ Placed(w) /\ j.left = <<>> /\ w.left = <<>>
              /\ Current(j) /\ Current(w) /\ j.request = w.request
              /\ verdicts' = verdicts \cup {v}
              /\ v.sameStores => j.began.stores = Now /\ w.began.stores = Now
              /\ v.sameModel => w.assisted = j.assisted
              /\ v.sameOutcome <=>
                   /\ ResultOf(j).deterministicAnswer = ResultOf(w).deterministicAnswer
                   /\ ResultOf(j).trustLevel = ResultOf(w).trustLevel
                   /\ ResultOf(j).metrics = ResultOf(w).metrics
        BY <2>1, WhoReplays
      <3>2. ASSUME v.sameStores, v.sameModel PROVE v.sameOutcome
        <4>1. j.began.stores = Now /\ w.began.stores = Now /\ w.assisted = j.assisted
          BY <3>1, <3>2
        <4>2. /\ j.branch = w.branch /\ j.cites = w.cites /\ j.snapshotId = w.snapshotId
              /\ Alike(j.reads, w.reads)
              /\ DOMAIN j.reads = Range(Queries(j.branch, j.request.q, j.request.consistency))
          BY <3>1, <4>1, TwoExecutions
        <4>3. PICK r, branch, cites, one, other, assisted, id :
                /\ r = j.request /\ branch = j.branch /\ cites = j.cites /\ one = j.reads
                /\ other = w.reads /\ assisted = j.assisted /\ id = j.snapshotId
          OBVIOUS
        <4>4. /\ ResultOf(j) = Respond(r, branch, cites, one, assisted, id)
              /\ ResultOf(w) = Respond(r, branch, cites, other, assisted, id)
          BY <3>1, <4>1, <4>2, <4>3 DEF ResultOf
        <4>5. Alike(one, other) /\ DOMAIN one = Range(Queries(branch, r.q, r.consistency))
          BY <4>2, <4>3
        <4> QED BY <3>1, <4>4, <4>5, SameOutcome
      <3> QED BY <3>1, <3>2 DEF AdaptOnlyReorders
    <2>2. CASE UNCHANGED verdicts
      BY <2>2 DEF AdaptOnlyReorders
    <2> QED BY <2>1, <2>2, OthersDoNotReplay
  <1> QED BY <1>1, <1>2, ExecutionInvariant, PTL DEF Spec

\* Replaying a proof reproduces it whenever nothing it was computed from has changed:
\* neither while it was first computed, nor since, nor meanwhile (AskService.replay).
\* What is stored in a proof is enough to recompute it.
THEOREM ReplayIsFaithful == Spec => []ReplayReproduces
  <1>1. Init => ReplayReproduces
    BY DEF Init, ReplayReproduces
  <1>2. Held /\ ReplayReproduces /\ [Next]_vars => ReplayReproduces'
    <2> SUFFICES ASSUME Held, ReplayReproduces, [Next]_vars PROVE ReplayReproduces'
      OBVIOUS
    <2>1. ASSUME NEW h \in Handlers, ReplayEnds(h) PROVE ReplayReproduces'
      <3>1. PICK j, w, v :
              /\ Placed(j) /\ Placed(w) /\ j.left = <<>> /\ w.left = <<>>
              /\ Current(j) /\ Current(w) /\ j.request = w.request
              /\ verdicts' = verdicts \cup {v}
              /\ v.sameStores => j.began.stores = Now /\ w.began.stores = Now
              /\ v.sameMultipliers => j.began.adapts = adapts /\ w.began.adapts = adapts
              /\ v.sameModel => w.assisted = j.assisted
              /\ v.matched <=> /\ corePayload(ResultOf(j)) = corePayload(ResultOf(w))
                               /\ ResultOf(j).snapshotId = ResultOf(w).snapshotId
        BY <2>1, WhoReplays
      <3>2. ASSUME v.sameStores, v.sameMultipliers, v.sameModel PROVE v.matched
        <4>1. /\ j.began.stores = Now /\ w.began.stores = Now /\ w.assisted = j.assisted
              /\ j.began.adapts = adapts /\ w.began.adapts = adapts
          BY <3>1, <3>2
        <4>2. /\ j.branch = w.branch /\ j.cites = w.cites /\ j.snapshotId = w.snapshotId
              /\ j.reads = w.reads
          BY <3>1, <4>1, TwoExecutions
        <4>3. ResultOf(j) = ResultOf(w)
          BY <3>1, <4>1, <4>2 DEF ResultOf
        <4> QED BY <3>1, <4>3
      <3> QED BY <3>1, <3>2 DEF ReplayReproduces
    <2>2. CASE UNCHANGED verdicts
      BY <2>2 DEF ReplayReproduces
    <2> QED BY <2>1, <2>2, OthersDoNotReplay
  <1> QED BY <1>1, <1>2, ExecutionInvariant, PTL DEF Spec

==============================================================================
