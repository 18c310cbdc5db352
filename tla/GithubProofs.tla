----------------------------- MODULE GithubProofs -----------------------------
(***************************************************************************)
(* Proofs about GithubPublish, for every value of its constants.           *)
(*                                                                         *)
(* Five invariants, each inductive relative to those before it: the types  *)
(* and what a job at a point of its handler has (Typed), which job a write *)
(* on the wire belongs to (Numbered), where the dispatches are (Counted),  *)
(* what a binding has seen (Bound) and what the files of a pull request    *)
(* are compared with (Paged); then the comments, one of each proof         *)
(* (Upserted).                                                             *)
(***************************************************************************)
EXTENDS GithubPublish, FiniteSetTheorems, SequenceTheorems, WellFoundedInduction, TLAPS

Nats1 == Nat \ {0}
Jobs == [op : Kinds, pc : Awaited \cup {"replied"}, n : Nats1, proof : Proofs \cup {None},
         token : Proofs \cup {None}, repo : Repos \cup {None}, limit : Nat,
         target : Repos \cup {None}, version : Nat, seen : Repos \cup {None},
         total : Nat \cup {None}, got : Nat \cup {None}, moved : BOOLEAN, ok : BOOLEAN]
Writes == [n : Nats1, kind : {"create", "comment", "patch", "dispatch"}, target : Repos,
           proof : Proofs \cup {None}, version : Nat, id : Nat]
Comments == [proof : Proofs \cup {None}, version : Nat, id : Nat]

\* What a job has when it has come to a point of its handler.
Placed(j) ==
    /\ j.n <= requests
    /\ j.op = "publish" => j.proof \in Proofs
    /\ j.op \in {"create", "select"} => j.repo \in Repos
    /\ j.pc = "search" => /\ j.op = "publish" /\ j.target \in Repos
                          /\ j.version \in 1..newest[j.proof]
    /\ j.pc = "pages" => j.op = "files" /\ j.target \in Repos
    /\ j.pc \in {"write", "replied"} =>
        /\ j.op \in {"create", "publish", "dispatch"} /\ j.target \in Repos
        /\ j.op = "create" => j.target = j.repo

\* A packet on its way is one that was stored.
Packed(w) == w.kind \in {"comment", "patch"} =>
                w.proof \in Proofs /\ w.version \in 1..newest[w.proof]

StoreTyped ==
    /\ selectedRepo \in Repos \cup {None} /\ loggedIn \in BOOLEAN
    /\ newest \in [Proofs -> 0..MaxVersions] /\ repos \subseteq Repos
    /\ requests \in Nat /\ faults \in Nat /\ others \in 0..MaxOthers
    /\ files \in [Repos -> Nat] /\ \A r \in Repos : files[r] \in FirstFiles..FirstFiles + others
    /\ sent \in [Repos -> Nat] /\ accepted \in [Repos -> Nat] /\ dispatched \in [Repos -> Nat]
    /\ overlapped \subseteq Proofs /\ crowded \subseteq Repos
JobsTyped ==
    /\ job \in [Handlers -> Jobs \cup {NoJob}]
    /\ \A h \in Handlers : job[h] # NoJob => Placed(job[h])
WireTyped ==
    /\ wire \in SUBSET Writes /\ IsFiniteSet(wire)
    /\ \A w \in wire : w.n <= requests /\ Packed(w)
CommentsTyped ==
    /\ comments \in [Repos -> Seq(Comments)]
    /\ \A r \in Repos : \A i \in DOMAIN comments[r] :
        comments[r][i].proof \in Proofs => comments[r][i].version \in 1..newest[comments[r][i].proof]
Typed == StoreTyped /\ JobsTyped /\ WireTyped /\ CommentsTyped

\* A number is one request's. The write on the wire with that number is the one
\* its job waits for, or its job was given up.
Numbered ==
    /\ \A g, h \in Handlers : job[g].n = job[h].n /\ job[h] # NoJob => g = h
    /\ \A v, w \in wire : v.n = w.n => v = w
    /\ \A h \in Handlers : \A w \in wire : job[h].n = w.n =>
        /\ job[h].pc = "write" /\ job[h].target = w.target
        /\ job[h].op = "dispatch" <=> w.kind = "dispatch"
        /\ job[h].op = "create" <=> w.kind = "create"
        /\ w.kind \in {"comment", "patch"} => job[h].proof = w.proof

\* Dispatches to a repository on their way, and those acknowledged that their
\* handler has still to count.
OnWire(r) == {w \in wire : w.kind = "dispatch" /\ w.target = r}
Acknowledged(r) == {h \in Handlers : Running(h, "dispatch", "replied") /\ job[h].ok
                                     /\ job[h].target = r}
Counted == \A r \in Repos :
    /\ dispatched[r] + Cardinality(OnWire(r)) <= sent[r]
    /\ accepted[r] + Cardinality(Acknowledged(r)) <= dispatched[r]

\* Whatever was selected, or seen to be, or made, is a repository.
Bound ==
    /\ selectedRepo \in repos \cup {None}
    /\ \A h \in Handlers : job[h] # NoJob =>
        /\ job[h].seen \in repos \cup {None}
        /\ Running(h, "create", "replied") /\ job[h].ok => job[h].repo \in repos
    /\ ReadyNeverProduct

\* What was read of a pull request that did not move is still so.
Paged ==
    /\ \A h \in Handlers : job[h].op = "files" /\ job[h].pc # "pages" =>
        job[h].total = None /\ job[h].got = None
    /\ \A h \in Handlers : Running(h, "files", "pages") /\ ~job[h].moved =>
        /\ job[h].total # None => job[h].total = files[job[h].target]
        /\ job[h].got # None => job[h].got \in Nat /\ job[h].got <= files[job[h].target]
    /\ FilesTold

\* The numbers that can still become the id of a comment: of the jobs that have
\* not sent their write, and of the comments on the wire.
MayBecome(n) ==
    \/ \E h \in Handlers : job[h].n = n /\ n # 0 /\ job[h].pc \notin {"write", "replied"}
    \/ \E w \in wire : w.n = n
\* A comment of a proof has the id of the request that made it, alone; others'
\* have none.
Identified ==
    \A r \in Repos : \A i \in DOMAIN comments[r] :
        LET c == comments[r][i]
        IN  /\ c.id <= requests
            /\ c.id = 0 => c = Comment(None, 0, 0)
            /\ c.id # 0 => c.proof \in Proofs /\ ~MayBecome(c.id)
            /\ \A k \in DOMAIN comments[r] : c.id # 0 /\ comments[r][k].id = c.id => k = i
\* A patch is for a comment of its own proof.
Aimed ==
    \A w \in wire : w.kind = "patch" =>
        /\ w.id # 0 /\ w.id <= requests /\ ~MayBecome(w.id)
        /\ \A i \in DOMAIN comments[w.target] :
            comments[w.target][i].id = w.id => comments[w.target][i].proof = w.proof
\* Publications of a proof that did not overlap: one job and one write, of the
\* same number.
Alone ==
    \A p \in Proofs \ overlapped :
        /\ \A g, h \in Handlers : job[g].proof = p /\ job[h].proof = p => g = h
        /\ \A h \in Handlers : \A w \in wire : job[h].proof = p /\ w.proof = p => job[h].n = w.n
        /\ \A v, w \in wire : v.proof = p /\ w.proof = p => v = w
\* What such a publication writes is no older than what is there, and it makes a
\* comment only where there is none.
Newer ==
    /\ \A h \in Handlers : Running(h, "publish", "search") /\ job[h].proof \notin overlapped =>
        \A r \in Repos : \A i \in CommentsOf(r, job[h].proof) :
            comments[r][i].version <= job[h].version
    /\ \A w \in wire : w.kind \in {"comment", "patch"} /\ w.proof \notin overlapped =>
        /\ \A r \in Repos : \A i \in CommentsOf(r, w.proof) : comments[r][i].version <= w.version
        /\ w.kind = "comment" /\ w.target \notin crowded => CommentsOf(w.target, w.proof) = {}
Single == \A r \in Repos \ crowded : \A p \in Proofs \ overlapped :
            \A i, k \in CommentsOf(r, p) : i = k
Upserted == Identified /\ Aimed /\ Alone /\ Newer /\ Single

------------------------------------------------------------------------------
(* How a handler goes on: by itself, or by sending a write.                *)

\* The same request, further on.
Onward(j, k) == /\ j \in Jobs /\ Placed(j) /\ j.n = k.n /\ j.op = k.op
                /\ j.proof = k.proof /\ j.repo = k.repo /\ j.seen = k.seen
Unsent(k) == k \in Jobs /\ k.pc \notin {"write", "replied"}
Stays(h, j) ==
    /\ job[h] # NoJob /\ job' = [job EXCEPT ![h] = j]
    /\ j = NoJob \/ (Onward(j, job[h]) /\ Unsent(job[h]) /\ Unsent(j))
    /\ j.pc = "search" => j.version = newest[j.proof]
    /\ \/ UNCHANGED accepted
       \/ /\ Running(h, "dispatch", "replied") /\ job[h].ok
          /\ accepted' = [accepted EXCEPT ![job[h].target] = @ + 1]
    /\ UNCHANGED <<newest, github, wire, requests, others, sent, overlapped, crowded>>
Sends(h, j, w) ==
    /\ job' = [job EXCEPT ![h] = j] /\ wire' = wire \cup {w}
    /\ Onward(j, job[h]) /\ Unsent(job[h]) /\ j.pc = "write"
    /\ w \in Writes /\ Packed(w)
    /\ w.n = j.n /\ w.proof = j.proof /\ w.version = j.version /\ w.target = j.target
    /\ j.op = "dispatch" <=> w.kind = "dispatch"
    /\ j.op = "create" <=> w.kind = "create"
    /\ w.kind \in {"comment", "patch"} => Running(h, "publish", "search") /\ j.version = job[h].version
    /\ w.kind = "comment" => w.target \in crowded' \/ CommentsOf(w.target, w.proof) = {}
    /\ w.kind = "patch" => \E i \in CommentsOf(w.target, w.proof) : comments[w.target][i].id = w.id
    /\ crowded \subseteq crowded'
    /\ sent' = IF w.kind = "dispatch" THEN [sent EXCEPT ![w.target] = @ + 1] ELSE sent
    /\ UNCHANGED <<workspace, github, bounds, accepted, overlapped, answers>>

\* None is no proof, no repository and no handler.
LEMMA NoneIsNothing == None \notin Proofs /\ None \notin Repos
  BY GithubAssumption

\* The bounds of the model are numbers.
LEMMA BoundTypes == /\ FirstFiles \in Nat /\ MaxOthers \in Nat /\ MaxVersions \in Nat \ {0}
                    /\ PageSize \in Nat /\ PageCap \in Nat
  BY GithubAssumption

\* A job is not NoJob: it has a number.
LEMMA JobsAreNumbered == NoJob \notin Jobs /\ NoJob.n = 0 /\ NoJob.pc = "idle" /\ NoJob.proof = None
                         /\ NoJob.op = "none"
  BY DEF NoJob, Jobs, Nats1

\* What a request resolves to is a repository, if it is anything.
LEMMA ResolvedType ==
    ASSUME StoreTyped, NEW e \in Repos \cup {None}
    PROVE  resolveTargetRepo(e) \in Repos \cup {None}
  BY GithubAssumption DEF StoreTyped, resolveTargetRepo, DefaultRepo

\* A job that is somewhere in a handler is a job.
LEMMA AtAPoint ==
    ASSUME JobsTyped, NEW h \in Handlers, job[h].pc # "idle" \/ job[h].op # "none"
    PROVE  job[h] \in Jobs /\ job[h] # NoJob /\ Placed(job[h])
  BY JobsAreNumbered DEF JobsTyped

\* The first of a set of positions is one of them, and no later than the others:
\* of the intervals that end at them one is the least.
LEMMA FirstPosition ==
    ASSUME NEW S, S \subseteq Nat, S # {}
    PROVE  Min(S) \in S /\ \A i \in S : Min(S) <= i
  <1> DEFINE I == {0..i : i \in S}
             R == StrictSubsetOrdering(Nat)
  <1>1. I \subseteq FiniteSubsetsOf(Nat) /\ I # {}
    <2>1. \A i \in S : 0..i \in SUBSET Nat /\ IsFiniteSet(0..i)
      BY FS_Interval
    <2> QED BY <2>1 DEF FiniteSubsetsOf
  <1>2. IsWellFoundedOn(R, FiniteSubsetsOf(Nat))
    BY FS_StrictSubsetOrderingWellFounded
  <1>3. PICK X \in I : \A Y \in I : <<Y, X>> \notin R
    <2> HIDE DEF I, R
    <2> QED BY <1>1, <1>2, WFMin
  <1>4. PICK m \in S : X = 0..m
    OBVIOUS
  <1>5. ASSUME NEW i \in S, i < m PROVE FALSE
    <2>1. 0..i \subseteq 0..m /\ m \in 0..m /\ m \notin 0..i
      BY <1>5
    <2>2. <<0..i, X>> \in R
      BY <1>4, <2>1 DEF StrictSubsetOrdering
    <2> QED BY <1>3, <2>2
  <1>6. \A i \in S : m <= i
    BY <1>5
  <1> QED BY <1>6 DEF Min

\* The comment that a search finds is on the pull request and bears the marker.
LEMMA FirstFound ==
    ASSUME CommentsTyped, NEW h \in Handlers, job[h].target \in Repos,
           findExistingComment(h) # {}
    PROVE  LET first == comments[job[h].target][Min(findExistingComment(h))]
           IN  /\ Min(findExistingComment(h)) \in DOMAIN comments[job[h].target]
               /\ first \in Comments /\ first.proof = job[h].proof
  <1> DEFINE c == comments[job[h].target]
             S == findExistingComment(h)
  <1>1. c \in Seq(Comments)
    BY DEF CommentsTyped
  <1>2. Page(job[h].target) \subseteq DOMAIN c
    BY <1>1, GithubAssumption DEF Page
  <1>3. S \subseteq DOMAIN c /\ \A i \in S : c[i].proof = job[h].proof
    BY <1>2 DEF findExistingComment
  <1>4. Min(S) \in S
    BY <1>1, <1>3, FirstPosition
  <1> QED BY <1>1, <1>3, <1>4

\* A search that finds nothing has seen every comment, or more than a page of them.
LEMMA AllOnPage ==
    ASSUME CommentsTyped, NEW h \in Handlers, job[h].target \in Repos,
           findExistingComment(h) = {}
    PROVE  Len(comments[job[h].target]) > PageSize
               \/ CommentsOf(job[h].target, job[h].proof) = {}
  <1> DEFINE c == comments[job[h].target]
  <1>1. c \in Seq(Comments)
    BY DEF CommentsTyped
  <1>2. ASSUME ~(Len(c) > PageSize) PROVE Page(job[h].target) = DOMAIN c
    BY <1>1, <1>2, BoundTypes DEF Page
  <1> QED BY <1>2 DEF findExistingComment, CommentsOf

\* Every step of a handler is one of the two.
LEMMA StepMoves ==
    ASSUME Typed, NEW h \in Handlers, Step(h) \/ CallFails(h)
    PROVE  (\E j : Stays(h, j)) \/ (\E j, w : Sends(h, j, w))
  <1> DEFINE k == job[h]
  <1>0. k \in Jobs /\ k # NoJob /\ Placed(k) /\ StoreTyped
    BY AtAPoint DEF Typed, Step, CallFails, LoggedIn, NoAuth, AskViewer, Viewed, AskRepo, RepoAnswered,
       SendCreate, Created, RemoteAnswered, AskComments, CommentsAnswered, TargetMissing,
       Published, SendDispatch, Dispatched, AskPages, PullAnswered, FilesAnswered,
       PagesAnswered, Running, resolveGithubAuth, Awaited
  <1>1. CASE NoAuth(h) \/ Viewed(h) \/ RepoAnswered(h) \/ Created(h) \/ RemoteAnswered(h)
             \/ TargetMissing(h) \/ Published(h) \/ Dispatched(h) \/ PagesAnswered(h)
             \/ CallFails(h)
    <2>1. Stays(h, NoJob)
      BY <1>0, <1>1, JobsAreNumbered DEF Stays, NoAuth, Viewed, RepoAnswered, Created, RemoteAnswered, TargetMissing, Published,
         Dispatched, PagesAnswered, CallFails, Stop, github, workspace, bounds, history
    <2> QED BY <2>1
  <1>2. CASE LoggedIn(h)
    <2>1. Stays(h, [k EXCEPT !.pc = "auth"])
      BY <1>0, <1>2 DEF Stays, LoggedIn, Onward, Unsent, Jobs, Placed, Awaited, Running, github, bounds, history
    <2> QED BY <2>1
  <1>3. CASE AskViewer(h)
    <2>1. Stays(h, [k EXCEPT !.pc = "viewer"])
      BY <1>0, <1>3 DEF Stays, AskViewer, resolveGithubAuth, Onward, Unsent, Jobs, Placed, Awaited, workspace,
         github, bounds, history
    <2> QED BY <2>1
  <1>4. CASE AskRepo(h)
    <2>1. Stays(h, [k EXCEPT !.pc = "repo"])
      BY <1>0, <1>4 DEF Stays, AskRepo, resolveGithubAuth, Onward, Unsent, Jobs, Placed, Awaited, workspace,
         github, bounds, history
    <2> QED BY <2>1
  <1>5. CASE SendCreate(h)
    <2> DEFINE j == [k EXCEPT !.target = k.repo, !.pc = "write"]
               w == [n |-> k.n, kind |-> "create", target |-> k.repo, proof |-> k.proof,
                     version |-> k.version, id |-> 0]
    <2>1. Sends(h, j, w)
      BY <1>0, <1>5 DEF Sends, SendCreate, Send, Running, Onward, Unsent, Jobs, Placed, Awaited, Writes, Packed,
         github, history
    <2> QED BY <2>1
  <1>6. CASE AskComments(h)
    <2> DEFINE t == resolveTargetRepo(k.repo)
               j == [k EXCEPT !.pc = "search", !.target = t, !.version = newest[k.proof]]
    <2>1. t \in Repos \cup {None}
      BY <1>0, ResolvedType DEF Jobs
    <2>2. CASE ~publishable(h, t)
      <3>1. Stays(h, NoJob)
        BY <1>0, <1>6, <2>2, JobsAreNumbered DEF Stays, AskComments, workspace, github, bounds, history
      <3> QED BY <3>1
    <2>3. CASE publishable(h, t)
      <3>1. k.proof \in Proofs /\ k.op = "publish" /\ newest[k.proof] \in Nat \ {0}
            /\ t \in Repos /\ k.pc = "auth"
        BY <1>0, <1>6, <2>1, <2>3 DEF AskComments, publishable, Placed, StoreTyped, resolveGithubAuth
      <3>2. job' = [job EXCEPT ![h] = j]
        BY <1>6, <2>3 DEF AskComments
      <3>3. Onward(j, k) /\ Unsent(k) /\ Unsent(j)
        <4>1. newest[k.proof] \in 1..newest[k.proof]
          BY <3>1
        <4> HIDE DEF t
        <4> QED BY <1>0, <3>1, <4>1 DEF Onward, Unsent, Jobs, Placed, Awaited
      <3>4. j.version = newest[j.proof]
        BY <1>0 DEF Jobs
      <3>5. Stays(h, j)
        <4> HIDE DEF j
        <4> QED BY <1>0, <1>6, <3>2, <3>3, <3>4 DEF Stays, AskComments, workspace, github, bounds, history
      <3> QED BY <3>5
    <2> QED BY <2>2, <2>3
  <1>7. CASE CommentsAnswered(h)
    <2> DEFINE existing == findExistingComment(h)
               first == comments[k.target][Min(existing)]
               j == [k EXCEPT !.pc = "write"]
               w(kind, id) == [n |-> k.n, kind |-> kind, target |-> k.target, proof |-> k.proof,
                               version |-> k.version, id |-> id]
    <2>1. k.pc = "search" /\ k.target \in Repos /\ k.op = "publish" /\ k.proof \in Proofs
          /\ k.version \in 1..newest[k.proof]
      BY <1>0, <1>7 DEF CommentsAnswered, Running, Placed
    <2>2. Onward(j, k) /\ Unsent(k) /\ j.pc = "write"
      BY <1>0, <2>1 DEF Onward, Unsent, Jobs, Placed, Awaited
    <2>3. ASSUME NEW kind \in {"comment", "patch"}, NEW id \in Nat, Send(h, k, kind, id),
                 kind = "comment" => existing = {},
                 kind = "patch" => \E i \in CommentsOf(k.target, k.proof) :
                                        comments[k.target][i].id = id
          PROVE  Sends(h, j, w(kind, id))
      <3>1. kind = "comment" => k.target \in crowded' \/ CommentsOf(k.target, k.proof) = {}
        BY <1>7, <2>1, <2>3, AllOnPage DEF CommentsAnswered, Typed
      <3>2. crowded \subseteq crowded' /\ UNCHANGED <<workspace, github, bounds, sent, accepted, overlapped, answers>>
        BY <1>7 DEF CommentsAnswered
      <3>3. w(kind, id) \in Writes /\ Packed(w(kind, id)) /\ Running(h, "publish", "search")
        BY <1>0, <2>1, <2>3 DEF Running, Jobs, Writes, Packed
      <3>4. j.n = k.n /\ j.proof = k.proof /\ j.version = k.version /\ j.target = k.target
            /\ j.op = "publish"
        BY <1>0, <2>1 DEF Jobs
      <3>5. job' = [job EXCEPT ![h] = j] /\ wire' = wire \cup {w(kind, id)}
        BY <2>3 DEF Send
      <3> HIDE DEF existing
      <3> QED BY <2>2, <2>3, <3>1, <3>2, <3>3, <3>4, <3>5 DEF Sends
    <2>4. CASE existing = {}
      <3>1. Send(h, k, "comment", 0)
        BY <1>7, <2>4 DEF CommentsAnswered
      <3> QED BY <2>3, <2>4, <3>1
    <2>5. CASE existing # {}
      <3>1. first.id \in Nat /\ Min(existing) \in CommentsOf(k.target, k.proof)
        BY <2>1, <2>5, FirstFound DEF Comments, Typed, CommentsOf
      <3>2. Send(h, k, "patch", first.id)
        BY <1>7, <2>5 DEF CommentsAnswered
      <3> QED BY <2>3, <3>1, <3>2
    <2> QED BY <2>4, <2>5
  <1>8. CASE SendDispatch(h)
    <2> DEFINE t == resolveTargetRepo(k.repo)
               j == [k EXCEPT !.target = t, !.pc = "write"]
               w == [n |-> k.n, kind |-> "dispatch", target |-> t, proof |-> k.proof,
                     version |-> k.version, id |-> 0]
    <2>1. t \in Repos \cup {None}
      BY <1>0, ResolvedType DEF Jobs
    <2>2. CASE t = None
      <3>1. Stays(h, NoJob)
        BY <1>0, <1>8, <2>2, JobsAreNumbered DEF Stays, SendDispatch, Stop, workspace, github, bounds
      <3> QED BY <3>1
    <2>3. CASE t # None
      <3>1. Onward(j, k) /\ Unsent(k) /\ j.pc = "write"
        BY <1>0, <1>8, <2>1, <2>3 DEF SendDispatch, resolveGithubAuth, Onward, Unsent, Jobs, Placed, Awaited
      <3>2. Sends(h, j, w)
        BY <1>0, <1>8, <2>1, <2>3, <3>1
        DEF Sends, SendDispatch, Send, Onward, Jobs, Writes, Packed, github
      <3> QED BY <3>2
    <2> QED BY <2>2, <2>3
  <1>9. CASE AskPages(h)
    <2> DEFINE t == resolveTargetRepo(k.repo)
               j == [k EXCEPT !.pc = "pages", !.target = t]
    <2>1. CASE t \notin repos
      <3>1. Stays(h, NoJob)
        BY <1>0, <1>9, <2>1, JobsAreNumbered DEF Stays, AskPages, workspace, github, bounds, history
      <3> QED BY <3>1
    <2>2. CASE t \in repos
      <3>1. Onward(j, k) /\ Unsent(k) /\ Unsent(j)
        BY <1>0, <1>9, <2>2 DEF AskPages, Running, Onward, Unsent, Jobs, Placed, Awaited, StoreTyped
      <3>2. Stays(h, j)
        BY <1>0, <1>9, <2>2, <3>1 DEF Stays, AskPages, workspace, github, bounds, history
      <3> QED BY <3>2
    <2> QED BY <2>1, <2>2
  <1>10. CASE PullAnswered(h)
    <2>1. Stays(h, [k EXCEPT !.total = files[k.target]])
      BY <1>0, <1>10 DEF Stays, PullAnswered, Onward, Unsent, Jobs, Placed, Awaited, Running, StoreTyped,
         workspace, github, bounds, history
    <2> QED BY <2>1
  <1>11. CASE FilesAnswered(h)
    <2> DEFINE Least(a, b) == IF a < b THEN a ELSE b
               got == Least(files[k.target], Least(k.limit, PageCap))
    <2>1. got \in Nat
      BY <1>0, <1>11, GithubAssumption DEF FilesAnswered, Jobs, Placed, Running, StoreTyped
    <2>2. Stays(h, [k EXCEPT !.got = got])
      <3> job' = [job EXCEPT ![h] = [k EXCEPT !.got = got]] /\ Running(h, "files", "pages")
        BY <1>11 DEF FilesAnswered
      <3> HIDE DEF got
      <3> QED BY <1>0, <1>11, <2>1 DEF Stays, FilesAnswered, Onward, Unsent, Jobs, Placed, Awaited, Running,
         workspace, github, bounds, history
    <2> QED BY <2>2
  <1> QED BY <1>1, <1>2, <1>3, <1>4, <1>5, <1>6, <1>7, <1>8, <1>9, <1>10, <1>11 DEF Step

------------------------------------------------------------------------------
(* The types.                                                              *)

\* The two ways of going on keep the types of jobs, writes and comments.
LEMMA MovesTyped ==
    ASSUME Typed, NEW h \in Handlers, (\E j : Stays(h, j)) \/ (\E j, w : Sends(h, j, w))
    PROVE  JobsTyped' /\ WireTyped' /\ CommentsTyped'
  <1>1. ASSUME NEW j, Stays(h, j) PROVE JobsTyped' /\ WireTyped' /\ CommentsTyped'
    BY <1>1 DEF Stays, Onward, Typed, JobsTyped, Placed, WireTyped, Packed, CommentsTyped, github
  <1>2. ASSUME NEW j, NEW w, Sends(h, j, w) PROVE JobsTyped' /\ WireTyped' /\ CommentsTyped'
    <2>1. JobsTyped'
      BY <1>2 DEF Sends, Onward, Typed, JobsTyped, Placed, workspace, bounds
    <2>2. WireTyped'
      BY <1>2, FS_AddElement DEF Sends, Onward, Placed, Typed, WireTyped, Packed, workspace, bounds
    <2>3. CommentsTyped'
      BY <1>2 DEF Sends, Typed, CommentsTyped, workspace, github
    <2> QED BY <2>1, <2>2, <2>3
  <1> QED BY <1>1, <1>2

\* What a handler's step does to the rest: it selects a repository, counts, or
\* notes what it saw.
LEMMA StepTyped ==
    ASSUME Typed, NEW h \in Handlers, Step(h) \/ CallFails(h)
    PROVE  Typed'
  <1> DEFINE Kept == UNCHANGED <<newest, repos, files, dispatched, requests, others, overlapped>>
  <1>0. job[h] \in Jobs /\ job[h] # NoJob /\ Placed(job[h])
    BY StepMoves, AtAPoint, JobsAreNumbered DEF Typed, JobsTyped, Stays, Sends, Unsent
  <1>1. Kept
    BY StepMoves DEF Stays, Sends, workspace, github, bounds
  <1>2. selectedRepo' \in Repos \cup {None} /\ loggedIn' \in BOOLEAN
    <2>1. CASE LoggedIn(h)
      BY <2>1 DEF LoggedIn, Typed, StoreTyped
    <2>2. CASE RepoAnswered(h)
      BY <1>0, <2>2 DEF RepoAnswered, Running, Placed, Typed, StoreTyped
    <2>3. CASE Created(h)
      BY <1>0, <2>3 DEF Created, persistSelectedRepo, Running, Placed, Typed, StoreTyped
    <2>4. UNCHANGED workspace => UNCHANGED <<selectedRepo, loggedIn>>
      BY DEF workspace
    <2> QED BY <2>1, <2>2, <2>3, <2>4
            DEF Step, CallFails, NoAuth, AskViewer, Viewed, AskRepo, SendCreate, RemoteAnswered, AskComments,
                CommentsAnswered, TargetMissing, Published, SendDispatch, Dispatched,
                AskPages, PullAnswered, FilesAnswered, PagesAnswered, Typed, StoreTyped
  <1>3. faults' \in Nat
    BY DEF Step, CallFails, LoggedIn, NoAuth, AskViewer, Viewed, AskRepo, RepoAnswered, SendCreate, Created,
           RemoteAnswered, AskComments, CommentsAnswered, TargetMissing, Published,
           SendDispatch, Dispatched, AskPages, PullAnswered, FilesAnswered, PagesAnswered,
           bounds, Typed, StoreTyped
  <1>4. sent' \in [Repos -> Nat] /\ accepted' \in [Repos -> Nat] /\ crowded' \subseteq Repos
    <2>1. CASE SendDispatch(h)
      BY <2>1 DEF SendDispatch, Typed, StoreTyped
    <2>2. CASE Dispatched(h)
      BY <1>0, <2>2 DEF Dispatched, Running, Placed, Typed, StoreTyped
    <2>3. CASE CommentsAnswered(h)
      BY <1>0, <2>3 DEF CommentsAnswered, Running, Placed, Typed, StoreTyped
    <2>4. UNCHANGED history => UNCHANGED <<sent, accepted, crowded>>
      BY DEF history
    <2> QED BY <2>1, <2>2, <2>3, <2>4
            DEF Step, CallFails, LoggedIn, NoAuth, AskViewer, Viewed, AskRepo, RepoAnswered, SendCreate, Created,
                RemoteAnswered, AskComments, TargetMissing, Published,
                AskPages, PullAnswered, FilesAnswered, PagesAnswered, Typed, StoreTyped
  <1>5. StoreTyped'
    BY <1>1, <1>2, <1>3, <1>4 DEF Typed, StoreTyped
  <1> QED BY <1>5, StepMoves, MovesTyped DEF Typed

\* GitHub's answer reaches the job that waits for it, if there is one, and no other.
Answers(w, ok) ==
    job' = [h \in Handlers |->
                IF job[h].n = w.n /\ job[h].pc = "write"
                THEN [job[h] EXCEPT !.pc = "replied", !.ok = ok] ELSE job[h]]
SameButAnswered(k, j, w, ok) ==
    \/ k = j /\ ~(j.n = w.n /\ j.pc = "write")
    \/ /\ j \in Jobs /\ k \in Jobs /\ j.n = w.n /\ j.pc = "write" /\ k.pc = "replied" /\ k.ok = ok
       /\ k.n = j.n /\ k.op = j.op /\ k.proof = j.proof /\ k.repo = j.repo /\ k.target = j.target
       /\ k.seen = j.seen /\ k.version = j.version
LEMMA AnswerTyped ==
    ASSUME JobsTyped, NEW w, NEW ok \in BOOLEAN, Answers(w, ok), UNCHANGED <<requests, newest>>
    PROVE  /\ JobsTyped'
           /\ \A h \in Handlers : SameButAnswered(job'[h], job[h], w, ok)
  <1>1. ASSUME NEW h \in Handlers
        PROVE  /\ job'[h] \in Jobs \cup {NoJob}
               /\ job'[h] # NoJob => Placed(job'[h])
               /\ SameButAnswered(job'[h], job[h], w, ok)
    <2>1. CASE job[h].n = w.n /\ job[h].pc = "write"
      <3>1. job[h] \in Jobs /\ Placed(job[h])
        BY <2>1, AtAPoint
      <3>2. job'[h] = [job[h] EXCEPT !.pc = "replied", !.ok = ok]
        BY <2>1 DEF Answers
      <3>3. job'[h] \in Jobs /\ job'[h].pc = "replied" /\ job'[h].ok = ok
        BY <3>1, <3>2 DEF Jobs
      <3>4. /\ job'[h].n = job[h].n /\ job'[h].op = job[h].op /\ job'[h].proof = job[h].proof
            /\ job'[h].repo = job[h].repo /\ job'[h].target = job[h].target
            /\ job'[h].seen = job[h].seen /\ job'[h].version = job[h].version
        BY <3>1, <3>2 DEF Jobs
      <3>5. Placed(job'[h])
        BY <2>1, <3>1, <3>3, <3>4 DEF Placed
      <3> QED BY <2>1, <3>1, <3>3, <3>4, <3>5 DEF SameButAnswered
    <2>2. CASE ~(job[h].n = w.n /\ job[h].pc = "write")
      BY <2>2 DEF Answers, JobsTyped, SameButAnswered
    <2> QED BY <2>1, <2>2
  <1>2. job' = [h \in Handlers |-> job'[h]]
    BY DEF Answers
  <1>3. \A h \in Handlers : job'[h] # NoJob => Placed(job[h])'
    BY <1>1 DEF Placed
  <1>4. job' \in [Handlers -> Jobs \cup {NoJob}]
    BY <1>1, <1>2
  <1> QED BY <1>1, <1>3, <1>4 DEF JobsTyped

\* A push reaches the jobs that are reading its pull request, and only marks them.
Marked(k, j) == /\ j \in Jobs /\ k \in Jobs /\ j.op = "files" /\ j.pc = "pages"
                /\ k.n = j.n /\ k.op = j.op /\ k.pc = j.pc /\ k.proof = j.proof /\ k.repo = j.repo
                /\ k.target = j.target /\ k.seen = j.seen /\ k.version = j.version
                /\ k.moved = TRUE
LEMMA PushMarks ==
    ASSUME JobsTyped, NEW r \in Repos, SomeonePushes(r), NEW h \in Handlers
    PROVE  \/ job'[h] = job[h] /\ ~(Running(h, "files", "pages") /\ job[h].target = r)
           \/ Marked(job'[h], job[h])
  <1>1. CASE Running(h, "files", "pages") /\ job[h].target = r
    <2>1. job[h] \in Jobs /\ job[h].op = "files" /\ job[h].pc = "pages"
      BY <1>1, AtAPoint DEF Running
    <2>2. job'[h] = [job[h] EXCEPT !.moved = TRUE]
      BY <1>1 DEF SomeonePushes
    <2> QED BY <2>1, <2>2 DEF Jobs, Marked
  <1>2. CASE ~(Running(h, "files", "pages") /\ job[h].target = r)
    BY <1>2 DEF SomeonePushes
  <1> QED BY <1>1, <1>2

\* Whether GitHub accepts a write is a yes or a no.
LEMMA SucceedsType == ASSUME NEW w \in Writes PROVE Succeeds(w) \in BOOLEAN
  <1>1. CASE w.kind = "create"
    BY <1>1 DEF Succeeds
  <1>2. CASE w.kind = "patch"
    BY <1>2 DEF Succeeds
  <1>3. CASE w.kind # "create" /\ w.kind # "patch"
    <2>1. Succeeds(w) = (w.target \in repos)
      BY <1>3 DEF Succeeds
    <2> QED BY <2>1
  <1> QED BY <1>1, <1>2, <1>3

\* What a write that GitHub accepts does to the comments: another at the end, or
\* another packet in place of one.
Added(w) ==
    LET c == comments[w.target]
        d == comments'[w.target]
    IN  /\ DOMAIN c = 1..Len(c) /\ DOMAIN d = 1..(Len(c) + 1)
        /\ \A i \in DOMAIN c : d[i] = c[i]
        /\ d[Len(c) + 1] = Comment(w.proof, w.version, w.n)
Replaced(w) ==
    LET c == comments[w.target]
        d == comments'[w.target]
    IN  /\ DOMAIN d = DOMAIN c
        /\ \A i \in DOMAIN c : d[i] = IF c[i].id = w.id THEN Comment(w.proof, w.version, w.id)
                                                        ELSE c[i]
LEMMA EffectOnComments ==
    ASSUME CommentsTyped, NEW w \in Writes, Effect(w)
    PROVE  /\ comments' \in [Repos -> Seq(Comments)]
           /\ \A r \in Repos \ {w.target} : comments'[r] = comments[r]
           /\ w.kind = "comment" => Added(w)
           /\ w.kind = "patch" => Replaced(w)
           /\ w.kind \notin {"comment", "patch"} => comments' = comments
  <1> DEFINE c == comments[w.target]
  <1>1. c \in Seq(Comments) /\ w.target \in Repos /\ comments \in [Repos -> Seq(Comments)]
    BY DEF CommentsTyped, Writes
  <1>2. CASE w.kind = "comment"
    <2> DEFINE x == Comment(w.proof, w.version, w.n)
    <2>1. x \in Comments
      BY DEF Comment, Comments, Writes, Nats1
    <2>2. comments' = [comments EXCEPT ![w.target] = Append(c, x)]
      BY <1>2 DEF Effect
    <2>3. /\ Append(c, x) \in Seq(Comments) /\ DOMAIN c = 1..Len(c)
          /\ DOMAIN Append(c, x) = 1..(Len(c) + 1)
          /\ \A i \in DOMAIN c : Append(c, x)[i] = c[i] /\ Append(c, x)[Len(c) + 1] = x
          /\ Append(c, x)[Len(c) + 1] = x
      BY <1>1, <2>1, AppendProperties
    <2> HIDE DEF x
    <2>4. comments'[w.target] = Append(c, x)
      BY <1>1, <2>2
    <2> QED BY <1>1, <1>2, <2>2, <2>3, <2>4 DEF Added, x
  <1>3. CASE w.kind = "patch"
    <2> DEFINE x == Comment(w.proof, w.version, w.id)
               d == [i \in DOMAIN c |-> IF i \in Patched(w) THEN x ELSE c[i]]
    <2>1. x \in Comments
      BY DEF Comment, Comments, Writes
    <2>2. comments' = [comments EXCEPT ![w.target] = d]
      BY <1>3 DEF Effect
    <2>3. \A i \in DOMAIN c : d[i] \in Comments /\ (i \in Patched(w) <=> c[i].id = w.id)
      BY <1>1, <2>1 DEF Patched
    <2>4. d \in Seq(Comments) /\ DOMAIN d = DOMAIN c
      <3>1. DOMAIN c = 1..Len(c) /\ Len(c) \in Nat
        BY <1>1, LenProperties
      <3>2. d \in [1..Len(c) -> Comments]
        BY <2>3, <3>1
      <3> QED BY <3>1, <3>2
    <2> HIDE DEF d, x
    <2>5. comments'[w.target] = d
      BY <1>1, <2>2
    <2> QED BY <1>1, <1>3, <2>2, <2>3, <2>4, <2>5 DEF Replaced, d, x
  <1>4. CASE w.kind \notin {"comment", "patch"}
    BY <1>4 DEF Effect, CommentsTyped
  <1> QED BY <1>2, <1>3, <1>4

\* Deleting a comment leaves the others, each in its place or the one before.
Without(c, d, i) ==
    /\ DOMAIN c = 1..Len(c) /\ DOMAIN d = 1..(Len(c) - 1)
    /\ \A k \in DOMAIN d : /\ (IF k < i THEN k ELSE k + 1) \in DOMAIN c
                           /\ d[k] = c[IF k < i THEN k ELSE k + 1]
LEMMA Deletion ==
    ASSUME NEW S, NEW c \in Seq(S), NEW i \in DOMAIN c
    PROVE  RemoveAt(c, i) \in Seq(S) /\ Without(c, RemoveAt(c, i), i)
  <1>1. Len(c) \in Nat /\ i \in 1..Len(c) /\ DOMAIN c = 1..Len(c)
    BY LenProperties
  <1> DEFINE s == SubSeq(c, 1, i - 1)
             t == SubSeq(c, i + 1, Len(c))
  <1>2. s \in Seq(S) /\ Len(s) = i - 1 /\ \A k \in 1..(i - 1) : s[k] = c[k]
    BY <1>1
  <1>3. t \in Seq(S) /\ Len(t) = Len(c) - i /\ \A k \in 1..(Len(c) - i) : t[k] = c[i + k]
    BY <1>1
  <1>4. /\ s \o t \in Seq(S) /\ DOMAIN (s \o t) = 1..(Len(c) - 1)
        /\ \A k \in 1..(Len(c) - 1) : (s \o t)[k] = IF k < i THEN c[k] ELSE c[k + 1]
    <2> HIDE DEF s, t
    <2>0. /\ s \o t \in Seq(S) /\ Len(s \o t) = Len(s) + Len(t)
          /\ \A k \in 1..(Len(s) + Len(t)) :
                (s \o t)[k] = IF k <= Len(s) THEN s[k] ELSE t[k - Len(s)]
      <3>1. s \in Seq(S) /\ t \in Seq(S)
        BY <1>2, <1>3
      <3> QED BY <3>1, ConcatProperties
    <2>1. Len(s) + Len(t) = Len(c) - 1 /\ Len(s) = i - 1
      BY <1>1, <1>2, <1>3
    <2>2. \A k \in 1..(Len(c) - 1) : (s \o t)[k] = IF k <= i - 1 THEN s[k] ELSE t[k - (i - 1)]
      BY <2>0, <2>1
    <2>3. ASSUME NEW k \in 1..(Len(c) - 1) PROVE (s \o t)[k] = IF k < i THEN c[k] ELSE c[k + 1]
      <3>1. CASE k < i
        BY <1>1, <1>2, <2>2, <3>1
      <3>2. CASE ~(k < i)
        <4>1. k - (i - 1) \in 1..(Len(c) - i) /\ i + (k - (i - 1)) = k + 1
          BY <1>1, <3>2
        <4>2. (s \o t)[k] = t[k - (i - 1)]
          <5>1. ~(k <= i - 1)
            BY <1>1, <3>2
          <5> QED BY <2>2, <5>1
        <4>3. t[k - (i - 1)] = c[i + (k - (i - 1))]
          BY <1>3, <4>1
        <4> QED BY <3>2, <4>1, <4>2, <4>3
      <3> QED BY <3>1, <3>2
    <2> QED BY <2>0, <2>1, <2>3, LenProperties
  <1>5. RemoveAt(c, i) = s \o t
    BY DEF RemoveAt, s, t
  <1>6. \A k \in 1..(Len(c) - 1) : (IF k < i THEN k ELSE k + 1) \in DOMAIN c
    BY <1>1
  <1>7. \A k \in 1..(Len(c) - 1) : (s \o t)[k] = c[IF k < i THEN k ELSE k + 1]
    BY <1>4
  <1> HIDE DEF s, t
  <1> QED BY <1>1, <1>4, <1>5, <1>6, <1>7 DEF Without

\* A request that arrives has the next number and the selection it found.
Begins(h, j) ==
    /\ job[h] = NoJob /\ job' = [job EXCEPT ![h] = j] /\ requests' = requests + 1
    /\ j \in Jobs /\ j.n = requests + 1 /\ j.pc \in {"remote", "login", "auth"}
    /\ j.seen = selectedRepo /\ j.total = None /\ j.got = None
    /\ j.op = "publish" => j.proof \in Proofs
    /\ j.op \in {"create", "select"} => j.repo \in Repos
    /\ overlapped' = overlapped \cup
        (({job[g].proof : g \in Handlers \ {h}} \cup {w.proof : w \in wire}) \cap {j.proof} \cap Proofs)
    /\ UNCHANGED <<workspace, github, wire, faults, others, sent, accepted, crowded, answers>>
LEMMA Arrival ==
    ASSUME Typed, NEW h \in Handlers, Request(h)
    PROVE  \E j : Begins(h, j)
  <1>1. PICK r \in Asked :
        LET pc == CASE r.op = "binding" -> "remote"
                    [] r.op = "login" /\ ~EnvToken -> "login"
                    [] OTHER -> "auth"
            rivals == {job[g].proof : g \in Handlers \ {h}} \cup {w.proof : w \in wire}
        IN  /\ job' = [job EXCEPT ![h] = [op |-> r.op, pc |-> pc, n |-> requests + 1,
                          proof |-> r.proof, token |-> r.token, repo |-> r.repo,
                          limit |-> r.limit, target |-> None, version |-> 0,
                          seen |-> selectedRepo, total |-> None, got |-> None,
                          moved |-> FALSE, ok |-> FALSE]]
            /\ overlapped' = overlapped \cup (rivals \cap {r.proof} \cap Proofs)
    BY DEF Request
  <1>2. r \in Requests /\ (r.op = "publish" => r.proof # None)
        /\ (r.op \in {"select", "create"} => r.repo # None)
    BY GithubAssumption
  <1> DEFINE pc == CASE r.op = "binding" -> "remote"
                     [] r.op = "login" /\ ~EnvToken -> "login"
                     [] OTHER -> "auth"
             j == [op |-> r.op, pc |-> pc, n |-> requests + 1, proof |-> r.proof,
                   token |-> r.token, repo |-> r.repo, limit |-> r.limit, target |-> None,
                   version |-> 0, seen |-> selectedRepo, total |-> None, got |-> None,
                   moved |-> FALSE, ok |-> FALSE]
  <1>3. pc \in {"remote", "login", "auth"}
    <2>1. CASE r.op = "binding"
      BY <2>1
    <2>2. CASE r.op # "binding" /\ r.op = "login" /\ ~EnvToken
      BY <2>2
    <2>3. CASE r.op # "binding" /\ ~(r.op = "login" /\ ~EnvToken)
      BY <2>3
    <2> QED BY <2>1, <2>2, <2>3
  <1> HIDE DEF pc
  <1>4. j \in Jobs /\ j.n = requests + 1 /\ j.pc = pc /\ j.seen = selectedRepo /\ j.op = r.op
        /\ j.total = None /\ j.got = None
        /\ j.proof = r.proof /\ j.repo = r.repo
    BY <1>2, <1>3 DEF Jobs, Requests, Typed, StoreTyped, Awaited, Nats1
  <1>5. job' = [job EXCEPT ![h] = j]
    BY <1>1 DEF pc
  <1>6. overlapped' = overlapped \cup
        (({job[g].proof : g \in Handlers \ {h}} \cup {w.proof : w \in wire}) \cap {r.proof} \cap Proofs)
    BY <1>1
  <1> HIDE DEF j
  <1>7. Begins(h, j)
    BY <1>2, <1>3, <1>4, <1>5, <1>6 DEF Begins, Request, Requests
  <1> QED BY <1>7

\* What GitHub, the others and the end of the process do, and requests.
LEMMA RestTyped ==
    ASSUME Typed, Next, ~\E h \in Handlers : Step(h) \/ CallFails(h)
    PROVE  Typed'
  <1> USE DEF Typed
  <1>1. ASSUME NEW h \in Handlers, Request(h) PROVE Typed'
    <2>1. PICK j : Begins(h, j)
      BY <1>1, Arrival
    <2>2. StoreTyped'
      BY <2>1 DEF Begins, StoreTyped, workspace, github
    <2>3. JobsTyped'
      <3>1. job' \in [Handlers -> Jobs \cup {NoJob}] /\ job'[h] = j
            /\ \A g \in Handlers \ {h} : job'[g] = job[g]
        BY <2>1 DEF Begins, JobsTyped
      <3>2. Placed(job[h])'
        <4>1. /\ j.n = requests' /\ requests' \in Nat /\ j.pc \in {"remote", "login", "auth"}
              /\ j.op = "publish" => j.proof \in Proofs
              /\ j.op \in {"create", "select"} => j.repo \in Repos
          BY <2>1 DEF Begins, StoreTyped
        <4>2. j.pc \notin {"search", "pages", "write", "replied"}
          BY <4>1
        <4>3. job'[h] = j /\ j.n <= requests'
          BY <3>1, <4>1
        <4> QED BY <4>1, <4>2, <4>3 DEF Placed
      <3>3. ASSUME NEW g \in Handlers \ {h}, job[g] # NoJob PROVE Placed(job[g])'
        BY <2>1, <3>1, <3>3 DEF Begins, Placed, JobsTyped, StoreTyped, Jobs, Nats1, workspace
      <3> QED BY <3>1, <3>2, <3>3 DEF JobsTyped
    <2>4. WireTyped'
      BY <2>1 DEF Begins, WireTyped, Writes, Nats1, StoreTyped, Packed, workspace
    <2>5. CommentsTyped'
      BY <2>1 DEF Begins, CommentsTyped, workspace, github
    <2> QED BY <2>2, <2>3, <2>4, <2>5
  <1>2. ASSUME NEW w \in wire, Handle(w) PROVE Typed'
    <2>1. w \in Writes /\ Succeeds(w) \in BOOLEAN
      BY SucceedsType DEF WireTyped
    <2>2. JobsTyped'
      BY <1>2, <2>1, AnswerTyped DEF Handle, Answers, workspace, bounds
    <2>3. WireTyped'
      BY <1>2, FS_RemoveElement DEF Handle, WireTyped, Packed, workspace, bounds
    <2>4. StoreTyped'
      <3>1. UNCHANGED <<selectedRepo, loggedIn, newest, requests, faults, others, files, sent,
                        accepted, overlapped, crowded>>
        BY <1>2 DEF Handle, workspace, bounds, history
      <3>2. repos' \subseteq Repos /\ dispatched' \in [Repos -> Nat]
        <4>1. CASE ~Succeeds(w)
          BY <1>2, <4>1 DEF Handle, StoreTyped
        <4>2. CASE Succeeds(w)
          <5>1. /\ repos' = IF w.kind = "create" THEN repos \cup {w.target} ELSE repos
                /\ dispatched' = IF w.kind = "dispatch"
                                 THEN [dispatched EXCEPT ![w.target] = @ + 1] ELSE dispatched
            BY <1>2, <4>2 DEF Handle, Effect
          <5> QED BY <2>1, <5>1 DEF StoreTyped, Writes
        <4> QED BY <4>1, <4>2
      <3> QED BY <3>1, <3>2 DEF StoreTyped
    <2>5. CommentsTyped'
      <3>1. CASE ~Succeeds(w)
        BY <1>2, <3>1 DEF Handle, CommentsTyped, workspace
      <3>2. CASE Succeeds(w)
        <4>1. Effect(w) /\ UNCHANGED newest
          BY <1>2, <3>2 DEF Handle, workspace
        <4>2. comments' \in [Repos -> Seq(Comments)]
          BY <2>1, <4>1, EffectOnComments
        <4>3. ASSUME NEW r \in Repos, NEW i \in DOMAIN comments'[r], comments'[r][i].proof \in Proofs
              PROVE  comments'[r][i].version \in 1..newest[comments'[r][i].proof]
          <5>1. CASE r # w.target \/ w.kind \notin {"comment", "patch"}
            BY <2>1, <4>1, <4>3, <5>1, EffectOnComments DEF CommentsTyped
          <5>2. CASE r = w.target /\ w.kind = "comment"
            <6>1. Added(w)
              BY <2>1, <4>1, <5>2, EffectOnComments
            <6>2. CASE i \in DOMAIN comments[r]
              BY <4>3, <5>2, <6>1, <6>2 DEF CommentsTyped, Added
            <6>3. CASE i \notin DOMAIN comments[r]
              <7>1. comments'[r][i] = Comment(w.proof, w.version, w.n)
                BY <2>1, <5>2, <6>1, <6>3 DEF Added, CommentsTyped
              <7> QED BY <5>2, <7>1 DEF Comment, WireTyped, Packed
            <6> QED BY <6>2, <6>3
          <5>3. CASE r = w.target /\ w.kind = "patch"
            <6>1. Replaced(w)
              BY <2>1, <4>1, <5>3, EffectOnComments
            <6>2. CASE comments[r][i].id # w.id
              BY <4>3, <5>3, <6>1, <6>2 DEF CommentsTyped, Replaced
            <6>3. CASE comments[r][i].id = w.id
              <7>1. comments'[r][i] = Comment(w.proof, w.version, w.id)
                BY <5>3, <6>1, <6>3 DEF Replaced
              <7> QED BY <5>3, <7>1 DEF Comment, WireTyped, Packed
            <6> QED BY <6>2, <6>3
          <5> QED BY <5>1, <5>2, <5>3
        <4> QED BY <4>1, <4>2, <4>3 DEF CommentsTyped
      <3> QED BY <3>1, <3>2
    <2> QED BY <2>2, <2>3, <2>4, <2>5
  <1>3. ASSUME NEW w \in wire, Refuse(w) \/ Lose(w) PROVE Typed'
    <2>1. JobsTyped'
      BY <1>3, AnswerTyped DEF Refuse, Lose, Answers, JobsTyped, Placed, workspace
    <2>2. /\ wire' = wire \ {w} /\ faults' = faults + 1
          /\ UNCHANGED <<selectedRepo, loggedIn, newest, repos, comments, files, dispatched,
                        requests, others, sent, accepted, overlapped, crowded>>
      BY <1>3 DEF Refuse, Lose, workspace, github, history
    <2>3. WireTyped'
      BY <2>2, FS_RemoveElement DEF WireTyped, Packed
    <2>4. StoreTyped' /\ CommentsTyped'
      BY <2>2 DEF StoreTyped, CommentsTyped
    <2> QED BY <2>1, <2>3, <2>4
  <1>4. ASSUME NEW p \in Proofs, AskAgain(p) PROVE Typed'
    <2>1. newest' \in [Proofs -> 0..MaxVersions] /\ newest' = [newest EXCEPT ![p] = @ + 1]
      BY <1>4, GithubAssumption DEF AskAgain, StoreTyped
    <2>2. \A q \in Proofs : 1..newest[q] \subseteq 1..newest'[q]
      BY <2>1, GithubAssumption DEF StoreTyped
    <2>3. StoreTyped'
      BY <1>4, <2>1 DEF AskAgain, StoreTyped, github, bounds, history
    <2>4. JobsTyped'
      BY <1>4, <2>2 DEF AskAgain, JobsTyped, Placed, bounds
    <2>5. WireTyped' /\ CommentsTyped'
      BY <1>4, <2>2 DEF AskAgain, WireTyped, Packed, CommentsTyped, github, bounds
    <2> QED BY <2>3, <2>4, <2>5
  <1>5. ASSUME NEW r \in Repos, SomeoneComments(r) PROVE Typed'
    <2> DEFINE x == Comment(None, 0, 0)
               c == comments[r]
    <2>1. x \in Comments /\ x.proof \notin Proofs /\ c \in Seq(Comments)
      BY NoneIsNothing DEF Comment, Comments, CommentsTyped
    <2>2. /\ Append(c, x) \in Seq(Comments) /\ DOMAIN c = 1..Len(c)
          /\ DOMAIN Append(c, x) = 1..(Len(c) + 1)
          /\ \A i \in DOMAIN c : Append(c, x)[i] = c[i]
          /\ Append(c, x)[Len(c) + 1] = x
      BY <2>1, AppendProperties
    <2>3. comments' = [comments EXCEPT ![r] = Append(c, x)] /\ UNCHANGED <<newest, job, wire, requests>>
      BY <1>5 DEF SomeoneComments, workspace
    <2>4. CommentsTyped'
      <3> HIDE DEF x
      <3>1. ASSUME NEW q \in Repos, NEW i \in DOMAIN comments'[q], comments'[q][i].proof \in Proofs
            PROVE  comments'[q][i].version \in 1..newest[comments'[q][i].proof]
        <4>1. CASE q # r
          BY <2>3, <3>1, <4>1 DEF CommentsTyped
        <4>2. CASE q = r
          BY <2>1, <2>2, <2>3, <3>1, <4>2 DEF CommentsTyped
        <4> QED BY <4>1, <4>2
      <3> QED BY <2>2, <2>3, <3>1 DEF CommentsTyped
    <2>5. StoreTyped'
      BY <1>5, BoundTypes DEF SomeoneComments, StoreTyped, workspace, history
    <2> QED BY <2>3, <2>4, <2>5 DEF JobsTyped, Placed, WireTyped, Packed
  <1>6. ASSUME NEW r \in Repos, SomeoneDeletes(r) PROVE Typed'
    <2>1. PICK i \in DOMAIN comments[r] : comments' = [comments EXCEPT ![r] = RemoveAt(comments[r], i)]
      BY <1>6 DEF SomeoneDeletes
    <2>2. RemoveAt(comments[r], i) \in Seq(Comments)
          /\ Without(comments[r], RemoveAt(comments[r], i), i)
      BY Deletion DEF CommentsTyped
    <2>3. UNCHANGED <<newest, job, wire, requests>>
      BY <1>6 DEF SomeoneDeletes, workspace
    <2>4. CommentsTyped'
      BY <2>1, <2>2, <2>3 DEF CommentsTyped, Without
    <2>5. StoreTyped'
      BY <1>6, BoundTypes DEF SomeoneDeletes, StoreTyped, workspace, history
    <2> QED BY <2>3, <2>4, <2>5 DEF JobsTyped, Placed, WireTyped, Packed
  <1>7. ASSUME NEW r \in Repos, SomeonePushes(r) PROVE Typed'
    <2>1. StoreTyped'
      BY <1>7, GithubAssumption DEF SomeonePushes, StoreTyped, workspace, history
    <2>2. UNCHANGED <<newest, comments, wire, requests>>
      BY <1>7 DEF SomeonePushes, workspace
    <2>3. \A h \in Handlers : job'[h] = job[h] \/ Marked(job'[h], job[h])
      BY <1>7, PushMarks
    <2>4. job' = [h \in Handlers |-> job'[h]]
      BY <1>7 DEF SomeonePushes
    <2>5. JobsTyped'
      <3>1. \A h \in Handlers : job'[h] \in Jobs \cup {NoJob}
        BY <2>3 DEF JobsTyped, Marked
      <3>2. \A h \in Handlers : job'[h] # NoJob => Placed(job[h])'
        BY <2>2, <2>3, JobsAreNumbered DEF JobsTyped, Marked, Placed
      <3> QED BY <2>4, <3>1, <3>2 DEF JobsTyped
    <2> QED BY <2>1, <2>2, <2>5 DEF WireTyped, Packed, CommentsTyped
  <1>8. CASE Crash
    <2>1. JobsTyped'
      BY <1>8 DEF Crash, JobsTyped
    <2>2. WireTyped' /\ CommentsTyped'
      BY <1>8 DEF Crash, WireTyped, Packed, CommentsTyped, github
    <2>3. StoreTyped'
      BY <1>8 DEF Crash, StoreTyped, github, history
    <2> QED BY <2>1, <2>2, <2>3
  <1> QED BY <1>1, <1>2, <1>3, <1>4, <1>5, <1>6, <1>7, <1>8 DEF Next

\* At first nothing runs, nothing is on its way and nobody has commented.
LEMMA InitTyped == Init => Typed
  <1> SUFFICES ASSUME Init PROVE Typed
    OBVIOUS
  <1>1. StoreTyped
    <2>1. newest \in [Proofs -> 0..MaxVersions]
      BY BoundTypes DEF Init
    <2>2. files \in [Repos -> Nat] /\ \A r \in Repos : files[r] = FirstFiles
      BY BoundTypes DEF Init
    <2>3. selectedRepo \in Repos \cup {None} /\ repos \subseteq Repos
      BY GithubAssumption DEF Init
    <2>4. requests \in Nat /\ faults \in Nat /\ others \in 0..MaxOthers
          /\ \A r \in Repos : files[r] \in FirstFiles..FirstFiles + others
      BY <2>2, BoundTypes DEF Init
    <2> QED BY <2>1, <2>2, <2>3, <2>4 DEF Init, StoreTyped
  <1>2. JobsTyped
    BY DEF Init, JobsTyped
  <1>3. WireTyped
    BY FS_EmptySet DEF Init, WireTyped
  <1>4. CommentsTyped
    <2>1. <<>> \in Seq(Comments)
      OBVIOUS
    <2> QED BY <2>1 DEF Init, CommentsTyped
  <1> QED BY <1>1, <1>2, <1>3, <1>4 DEF Typed

LEMMA NextTyped == Typed /\ [Next]_vars => Typed'
  <1> SUFFICES ASSUME Typed, [Next]_vars PROVE Typed'
    OBVIOUS
  <1>1. CASE UNCHANGED vars
    BY <1>1 DEF vars, workspace, github, bounds, history, Typed, StoreTyped, JobsTyped, Placed,
                WireTyped, Packed, CommentsTyped
  <1>2. CASE Next
    BY <1>2, StepTyped, RestTyped
  <1> QED BY <1>1, <1>2

\* What the typing of jobs and writes says of the parts that TypeOK looks at.
LEMMA TypedIsTypeOK == Typed => TypeOK
  <1> SUFFICES ASSUME Typed PROVE TypeOK
    OBVIOUS
  <1>1. ASSUME NEW h \in Handlers
        PROVE  /\ job[h].op \in Kinds \cup {"none"} /\ job[h].n \in 0..requests
               /\ job[h].pc \in Awaited \cup {"idle", "replied"}
               /\ job[h].pc \in {"search", "write"} => job[h].target \in Repos
    <2>1. CASE job[h] = NoJob
      BY <2>1, JobsAreNumbered DEF Typed, StoreTyped
    <2>2. CASE job[h] # NoJob
      BY <2>2 DEF Typed, StoreTyped, JobsTyped, Jobs, Placed, Nats1
    <2> QED BY <2>1, <2>2
  <1>2. \A w \in wire : w.n \in 1..requests /\ w.target \in Repos
    BY DEF Typed, StoreTyped, WireTyped, Writes, Nats1
  <1>3. files \in [Repos -> FirstFiles..FirstFiles + MaxOthers]
    BY BoundTypes DEF Typed, StoreTyped
  <1> QED BY <1>1, <1>2, <1>3 DEF Typed, StoreTyped, CommentsTyped, TypeOK

\* The types of everything the service keeps, and what a job has when it waits at a
\* point of its handler (GithubService).
THEOREM GithubTypes == Spec => []TypeOK
  BY InitTyped, NextTyped, TypedIsTypeOK, PTL DEF Spec

------------------------------------------------------------------------------
(* Whose a write is.                                                       *)

LEMMA NextNumbered ==
    ASSUME Typed, Typed', Numbered, [Next]_vars
    PROVE  Numbered'
  <1> USE DEF Typed
  <1>1. ASSUME NEW h \in Handlers, NEW j, Stays(h, j) PROVE Numbered'
    BY <1>1, JobsAreNumbered DEF Numbered, Stays, Onward, Unsent, Jobs, Nats1, JobsTyped, WireTyped, Writes
  <1>2. ASSUME NEW h \in Handlers, NEW j, NEW w, Sends(h, j, w) PROVE Numbered'
    <2>1. job'[h] = j /\ \A g \in Handlers \ {h} : job'[g] = job[g] /\ job[g].n # w.n
      BY <1>2, JobsAreNumbered DEF Numbered, Sends, Onward, Unsent, JobsTyped
    <2>2. \A v \in wire : v.n # w.n
      BY <1>2 DEF Numbered, Sends, Onward, Unsent
    <2> QED BY <1>2, <2>1, <2>2, JobsAreNumbered DEF Numbered, Sends, Onward, Writes, Unsent
  <1>3. ASSUME NEW h \in Handlers, NEW j, Begins(h, j) PROVE Numbered'
    <2>1. job'[h] = j /\ \A g \in Handlers \ {h} : job'[g] = job[g] /\ job[g].n # j.n
      BY <1>3, JobsAreNumbered DEF Begins, JobsTyped, Placed, StoreTyped, Jobs, Nats1
    <2>2. \A v \in wire : v.n # j.n
      BY <1>3 DEF Begins, WireTyped, StoreTyped, Writes, Nats1
    <2> QED BY <1>3, <2>1, <2>2, JobsAreNumbered DEF Numbered, Begins, Jobs
  <1>4. ASSUME NEW w \in wire, NEW ok \in BOOLEAN, Answers(w, ok), wire' = wire \ {w},
               UNCHANGED <<requests, newest>>
        PROVE  Numbered'
    <2>1. \A h \in Handlers : SameButAnswered(job'[h], job[h], w, ok)
      BY <1>4, AnswerTyped
    <2>2. \A h \in Handlers : job'[h].n = job[h].n /\ (job'[h] # NoJob <=> job[h] # NoJob)
      BY <2>1, JobsAreNumbered DEF SameButAnswered
    <2>3. \A h \in Handlers : \A v \in wire' : job'[h].n = v.n => job'[h] = job[h]
      BY <1>4, <2>1 DEF SameButAnswered, Numbered
    <2> QED BY <1>4, <2>2, <2>3 DEF Numbered
  <1>5. ASSUME NEW w \in wire, Handle(w) PROVE Numbered'
    <2>1. Succeeds(w) \in BOOLEAN
      BY SucceedsType DEF WireTyped
    <2> QED BY <1>4, <1>5, <2>1 DEF Handle, Answers, workspace, bounds
  <1>6. ASSUME NEW w \in wire, Refuse(w) PROVE Numbered'
    BY <1>4, <1>6 DEF Refuse, Answers, workspace
  <1>7. ASSUME NEW w \in wire, Lose(w) PROVE Numbered'
    BY <1>7 DEF Lose, Numbered
  <1>8. ASSUME NEW r \in Repos, SomeonePushes(r) PROVE Numbered'
    <2>1. \A h \in Handlers : job'[h] = job[h] \/ Marked(job'[h], job[h])
      BY <1>8, PushMarks
    <2>2. UNCHANGED wire
      BY <1>8 DEF SomeonePushes
    <2> QED BY <2>1, <2>2, JobsAreNumbered DEF Numbered, Marked
  <1>9. CASE Crash
    BY <1>9, JobsAreNumbered DEF Crash, Numbered, WireTyped, Writes, Nats1
  <1>10. CASE UNCHANGED <<job, wire>>
    BY <1>10 DEF Numbered
  <1> QED BY <1>1, <1>2, <1>3, <1>5, <1>6, <1>7, <1>8, <1>9, <1>10, StepMoves, Arrival
          DEF Next, vars, AskAgain, SomeoneComments, SomeoneDeletes

------------------------------------------------------------------------------
(* Dispatches are counted once.                                            *)

\* Both kinds of set are finite.
LEMMA CountsAreFinite ==
    ASSUME Typed, NEW r
    PROVE  /\ IsFiniteSet(OnWire(r)) /\ Cardinality(OnWire(r)) \in Nat
           /\ IsFiniteSet(Acknowledged(r)) /\ Cardinality(Acknowledged(r)) \in Nat
  <1>1. OnWire(r) \subseteq wire /\ IsFiniteSet(wire)
    BY DEF OnWire, Typed, WireTyped
  <1>2. Acknowledged(r) \subseteq Handlers /\ IsFiniteSet(Handlers)
    BY GithubAssumption DEF Acknowledged
  <1> QED BY <1>1, <1>2, FS_Subset, FS_CardinalityType

\* A smaller set is no larger.
LEMMA Fewer ==
    ASSUME NEW S, NEW T, IsFiniteSet(T), S \subseteq T
    PROVE  Cardinality(S) \in Nat /\ Cardinality(T) \in Nat /\ Cardinality(S) <= Cardinality(T)
  BY FS_Subset, FS_CardinalityType

\* One more is one more at most.
LEMMA OneMore ==
    ASSUME NEW T, IsFiniteSet(T), NEW x
    PROVE  /\ IsFiniteSet(T \cup {x}) /\ Cardinality(T \cup {x}) \in Nat
           /\ Cardinality(T \cup {x}) <= Cardinality(T) + 1
  <1>1. /\ IsFiniteSet(T \cup {x}) /\ Cardinality(T) \in Nat
        /\ Cardinality(T \cup {x}) = Cardinality(T) \/ Cardinality(T \cup {x}) = Cardinality(T) + 1
    BY FS_AddElement, FS_CardinalityType
  <1> QED BY <1>1

\* Dropping writes and answers keeps the counts.
LEMMA DropCounted ==
    ASSUME Typed, Counted, UNCHANGED <<dispatched, accepted, sent>>,
           \A r \in Repos : OnWire(r)' \subseteq OnWire(r) /\ Acknowledged(r)' \subseteq Acknowledged(r)
    PROVE  Counted'
  <1>1. ASSUME NEW r \in Repos
        PROVE  /\ dispatched'[r] + Cardinality(OnWire(r)') <= sent'[r]
               /\ accepted'[r] + Cardinality(Acknowledged(r)') <= dispatched'[r]
    <2>1. /\ Cardinality(OnWire(r)') \in Nat /\ Cardinality(OnWire(r)') <= Cardinality(OnWire(r))
          /\ Cardinality(Acknowledged(r)') \in Nat
          /\ Cardinality(Acknowledged(r)') <= Cardinality(Acknowledged(r))
      BY CountsAreFinite, Fewer
    <2>2. dispatched[r] \in Nat /\ accepted[r] \in Nat /\ sent[r] \in Nat
      BY DEF Typed, StoreTyped
    <2> QED BY <2>1, <2>2, CountsAreFinite DEF Counted
  <1> QED BY <1>1 DEF Counted

\* A handler that sends a dispatch counts it; one that is told of a run counts that.
LEMMA MovesCounted ==
    ASSUME Typed, Typed', Counted, NEW h \in Handlers,
           (\E j : Stays(h, j)) \/ (\E j, w : Sends(h, j, w))
    PROVE  Counted'
  <1>1. ASSUME NEW j, Stays(h, j) PROVE Counted'
    <2>1. \A r \in Repos : OnWire(r)' = OnWire(r) /\ Acknowledged(r)' = Acknowledged(r) \ {h}
      BY <1>1, JobsAreNumbered
      DEF Stays, Unsent, OnWire, Acknowledged, Running, Typed, JobsTyped
    <2>2. CASE UNCHANGED accepted
      BY <1>1, <2>1, <2>2, DropCounted DEF Stays, github
    <2>3. CASE /\ Running(h, "dispatch", "replied") /\ job[h].ok
               /\ accepted' = [accepted EXCEPT ![job[h].target] = @ + 1]
      <3>1. job[h].target \in Repos
        BY <2>3, AtAPoint DEF Typed, Running, Placed
      <3>2. ASSUME NEW r \in Repos
            PROVE  /\ dispatched'[r] + Cardinality(OnWire(r)') <= sent'[r]
                   /\ accepted'[r] + Cardinality(Acknowledged(r)') <= dispatched'[r]
        <4>1. UNCHANGED <<dispatched, sent>>
          BY <1>1 DEF Stays, github
        <4>2. dispatched[r] \in Nat /\ accepted[r] \in Nat /\ sent[r] \in Nat
          BY DEF Typed, StoreTyped
        <4>3. CASE r # job[h].target
          <5>1. Acknowledged(r)' = Acknowledged(r)
            BY <2>1, <4>3 DEF Acknowledged
          <5> QED BY <2>1, <2>3, <4>1, <4>3, <5>1 DEF Counted, Typed, StoreTyped
        <4>4. CASE r = job[h].target
          <5>1. h \in Acknowledged(r)
            BY <2>3, <4>4 DEF Acknowledged
          <5>2. Cardinality(Acknowledged(r)') = Cardinality(Acknowledged(r)) - 1
            BY <2>1, <5>1, CountsAreFinite, FS_RemoveElement
          <5>3. accepted'[r] = accepted[r] + 1
            BY <2>3, <4>4 DEF Typed, StoreTyped
          <5> QED BY <2>1, <4>1, <4>2, <5>2, <5>3, CountsAreFinite DEF Counted
        <4> QED BY <4>3, <4>4
      <3> QED BY <3>2 DEF Counted
    <2> QED BY <1>1, <2>2, <2>3 DEF Stays
  <1>2. ASSUME NEW j, NEW w, Sends(h, j, w) PROVE Counted'
    <2>1. \A r \in Repos : Acknowledged(r)' = Acknowledged(r)
      BY <1>2 DEF Sends, Onward, Unsent, Acknowledged, Running, Typed, JobsTyped
    <2>2. UNCHANGED <<dispatched, accepted>>
      BY <1>2 DEF Sends, github
    <2>3. CASE w.kind # "dispatch"
      <3>1. UNCHANGED sent /\ \A r \in Repos : OnWire(r)' = OnWire(r)
        BY <1>2, <2>3 DEF Sends, OnWire
      <3> QED BY <2>1, <2>2, <3>1, DropCounted
    <2>4. CASE w.kind = "dispatch"
      <3>1. ASSUME NEW r \in Repos
            PROVE  /\ dispatched'[r] + Cardinality(OnWire(r)') <= sent'[r]
                   /\ accepted'[r] + Cardinality(Acknowledged(r)') <= dispatched'[r]
        <4>1. dispatched[r] \in Nat /\ accepted[r] \in Nat /\ sent[r] \in Nat
          BY DEF Typed, StoreTyped
        <4>2. CASE r # w.target
          <5>1. OnWire(r)' = OnWire(r) /\ sent'[r] = sent[r]
            BY <1>2, <4>2 DEF Sends, OnWire, Typed, StoreTyped
          <5> QED BY <2>1, <2>2, <5>1 DEF Counted
        <4>3. CASE r = w.target
          <5>1. OnWire(r)' = OnWire(r) \cup {w} /\ sent'[r] = sent[r] + 1
            BY <1>2, <2>4, <4>3 DEF Sends, OnWire, Typed, StoreTyped
          <5>2. Cardinality(OnWire(r)') \in Nat
                /\ Cardinality(OnWire(r)') <= Cardinality(OnWire(r)) + 1
            BY <5>1, CountsAreFinite, OneMore
          <5> QED BY <2>1, <2>2, <4>1, <5>1, <5>2, CountsAreFinite DEF Counted
        <4> QED BY <4>2, <4>3
      <3> QED BY <3>1 DEF Counted
    <2> QED BY <2>3, <2>4
  <1> QED BY <1>1, <1>2

\* A run is started by one write, and told to the one job that waits for it.
LEMMA HandleCounted ==
    ASSUME Typed, Typed', Numbered, Counted, NEW w \in wire, Handle(w)
    PROVE  Counted'
  <1>1. Succeeds(w) \in BOOLEAN /\ w \in Writes
    BY SucceedsType DEF Typed, WireTyped
  <1>2. \A h \in Handlers : SameButAnswered(job'[h], job[h], w, Succeeds(w))
    BY <1>1, AnswerTyped DEF Handle, Answers, Typed, workspace, bounds
  <1>3. \A r \in Repos : OnWire(r)' = OnWire(r) \ {w}
    BY DEF Handle, OnWire
  <1>4. UNCHANGED <<accepted, sent>>
    BY DEF Handle, history
  <1>5. \A r \in Repos : \A h \in Acknowledged(r)' : h \in Acknowledged(r) \/
            (job[h].n = w.n /\ job[h].pc = "write" /\ job[h].op = "dispatch"
             /\ job[h].target = r /\ Succeeds(w))
    BY <1>2 DEF Acknowledged, Running, SameButAnswered
  <1>6. CASE ~(Succeeds(w) /\ w.kind = "dispatch")
    <2>1. UNCHANGED dispatched
      BY <1>6 DEF Handle, Effect
    <2>2. \A r \in Repos : Acknowledged(r)' \subseteq Acknowledged(r)
      BY <1>5, <1>6 DEF Numbered, Acknowledged
    <2> QED BY <1>3, <1>4, <2>1, <2>2, DropCounted
  <1>7. CASE Succeeds(w) /\ w.kind = "dispatch"
    <2>1. dispatched' = [dispatched EXCEPT ![w.target] = @ + 1]
      BY <1>7 DEF Handle, Effect
    <2>2. ASSUME NEW r \in Repos
          PROVE  /\ dispatched'[r] + Cardinality(OnWire(r)') <= sent'[r]
                 /\ accepted'[r] + Cardinality(Acknowledged(r)') <= dispatched'[r]
      <3>1. dispatched[r] \in Nat /\ accepted[r] \in Nat /\ sent[r] \in Nat
        BY DEF Typed, StoreTyped
      <3>2. CASE r # w.target
        <4>1. OnWire(r)' = OnWire(r) /\ dispatched'[r] = dispatched[r]
          BY <1>3, <2>1, <3>2 DEF OnWire, Typed, StoreTyped
        <4>2. Acknowledged(r)' \subseteq Acknowledged(r)
          BY <1>5, <3>2 DEF Numbered, Acknowledged
        <4>3. Cardinality(Acknowledged(r)') \in Nat
              /\ Cardinality(Acknowledged(r)') <= Cardinality(Acknowledged(r))
          BY <4>2, CountsAreFinite, Fewer
        <4> QED BY <1>4, <3>1, <4>1, <4>3, CountsAreFinite DEF Counted
      <3>3. CASE r = w.target
        <4>1. dispatched'[r] = dispatched[r] + 1
          BY <2>1, <3>3 DEF Typed, StoreTyped
        <4>2. Cardinality(OnWire(r)') = Cardinality(OnWire(r)) - 1
          <5>1. w \in OnWire(r)
            BY <1>7, <3>3 DEF OnWire
          <5> QED BY <1>3, <5>1, CountsAreFinite, FS_RemoveElement
        <4>3. PICK g : Acknowledged(r)' \subseteq Acknowledged(r) \cup {g}
          <5>1. \A g, h \in Acknowledged(r)' \ Acknowledged(r) : g = h
            BY <1>5, JobsAreNumbered DEF Numbered, Acknowledged, Typed, WireTyped
          <5> QED BY <5>1
        <4>4. Cardinality(Acknowledged(r)') \in Nat
              /\ Cardinality(Acknowledged(r)') <= Cardinality(Acknowledged(r)) + 1
          <5>1. IsFiniteSet(Acknowledged(r) \cup {g})
                /\ Cardinality(Acknowledged(r) \cup {g}) <= Cardinality(Acknowledged(r)) + 1
            BY CountsAreFinite, OneMore
          <5>2. Cardinality(Acknowledged(r)') \in Nat
                /\ Cardinality(Acknowledged(r) \cup {g}) \in Nat
                /\ Cardinality(Acknowledged(r)') <= Cardinality(Acknowledged(r) \cup {g})
            BY <4>3, <5>1, Fewer
          <5> QED BY <5>1, <5>2, CountsAreFinite
        <4> QED BY <1>4, <3>1, <4>1, <4>2, <4>4, CountsAreFinite DEF Counted
      <3> QED BY <3>2, <3>3
    <2> QED BY <2>2 DEF Counted
  <1> QED BY <1>6, <1>7

\* No other step starts, sends or acknowledges one.
LEMMA NextCounted ==
    ASSUME Typed, Typed', Numbered, Counted, [Next]_vars
    PROVE  Counted'
  <1>1. ASSUME NEW h \in Handlers, NEW j, Begins(h, j) PROVE Counted'
    <2>1. \A r \in Repos : OnWire(r)' = OnWire(r) /\ Acknowledged(r)' \subseteq Acknowledged(r)
      BY <1>1 DEF Begins, OnWire, Acknowledged, Running, Typed, JobsTyped
    <2> QED BY <1>1, <2>1, DropCounted DEF Begins, github
  <1>2. ASSUME NEW w \in wire, Refuse(w) \/ Lose(w) PROVE Counted'
    <2>1. \A h \in Handlers : SameButAnswered(job'[h], job[h], w, FALSE) \/ job'[h] = job[h]
      BY <1>2, AnswerTyped DEF Refuse, Lose, Answers, Typed, workspace
    <2>2. \A r \in Repos : OnWire(r)' \subseteq OnWire(r) /\ Acknowledged(r)' \subseteq Acknowledged(r)
      BY <1>2, <2>1 DEF Refuse, Lose, OnWire, Acknowledged, Running, SameButAnswered
    <2> QED BY <1>2, <2>2, DropCounted DEF Refuse, Lose, github, history
  <1>3. ASSUME NEW r \in Repos, SomeonePushes(r) PROVE Counted'
    <2>1. \A h \in Handlers : job'[h] = job[h] \/ Marked(job'[h], job[h])
      BY <1>3, PushMarks DEF Typed
    <2>2. \A q \in Repos : OnWire(q)' = OnWire(q) /\ Acknowledged(q)' \subseteq Acknowledged(q)
      BY <1>3, <2>1 DEF SomeonePushes, OnWire, Acknowledged, Running, Marked
    <2> QED BY <1>3, <2>2, DropCounted DEF SomeonePushes, history
  <1>4. CASE Crash
    <2>1. \A r \in Repos : OnWire(r)' = OnWire(r) /\ Acknowledged(r)' = {}
      BY <1>4, JobsAreNumbered DEF Crash, OnWire, Acknowledged, Running
    <2> QED BY <1>4, <2>1, DropCounted DEF Crash, github, history
  <1>5. CASE UNCHANGED <<job, wire, dispatched, sent, accepted>>
    BY <1>5 DEF Counted, OnWire, Acknowledged, Running
  <1> QED BY <1>1, <1>2, <1>3, <1>4, <1>5, StepMoves, MovesCounted, HandleCounted, Arrival
          DEF Next, vars, AskAgain, SomeoneComments, SomeoneDeletes, github, history

------------------------------------------------------------------------------
(* The binding.                                                            *)

\* A repository stays one, so what was selected or seen stays known.
LEMMA NextBound ==
    ASSUME Typed, Typed', Numbered, Bound, [Next]_vars
    PROVE  Bound'
  <1> DEFINE Seen(k) == /\ k.seen \in repos \cup {None}
                        /\ k.op = "create" /\ k.pc = "replied" /\ k.ok => k.repo \in repos
             Known == selectedRepo \in repos \cup {None}
             Chosen == \A h \in Handlers : job[h] # NoJob => Seen(job[h])
  <1>0. Bound <=> Known /\ Chosen /\ ReadyNeverProduct
    BY DEF Bound, Running
  <1>1. ASSUME NEW h \in Handlers, Step(h) \/ CallFails(h) PROVE Bound'
    <2>0. job[h] \in Jobs /\ job[h] # NoJob /\ Placed(job[h]) /\ UNCHANGED repos
      BY <1>1, StepMoves, AtAPoint, JobsAreNumbered
      DEF Typed, JobsTyped, Stays, Sends, Unsent, github
    <2>1. Chosen'
      BY <1>0, <1>1, <2>0, StepMoves DEF Stays, Sends, Onward, Unsent, Typed, JobsTyped
    <2>2. Known'
      <3>1. CASE RepoAnswered(h)
        BY <1>0, <2>0, <3>1 DEF RepoAnswered
      <3>2. CASE Created(h)
        BY <1>0, <2>0, <3>2 DEF Created, persistSelectedRepo, Running
      <3>3. CASE UNCHANGED selectedRepo
        BY <1>0, <2>0, <3>3
      <3> QED BY <1>1, <3>1, <3>2, <3>3
              DEF Step, CallFails, LoggedIn, NoAuth, AskViewer, Viewed, AskRepo, SendCreate,
                  RemoteAnswered, AskComments, CommentsAnswered, TargetMissing, Published,
                  SendDispatch, Dispatched, AskPages, PullAnswered, FilesAnswered,
                  PagesAnswered, workspace
    <2>3. ReadyNeverProduct'
      <3>1. CASE RemoteAnswered(h)
        <4>1. PICK product \in {Product, None} : answers' = answers \cup {bindingAnswer(h, product)}
          BY <3>1 DEF RemoteAnswered
        <4>2. bindingAnswer(h, product).ready =>
                job[h].seen # None /\ product # None /\ job[h].seen # product
          BY DEF bindingAnswer
        <4>3. bindingAnswer(h, product).repo = job[h].seen
          BY DEF bindingAnswer
        <4> HIDE DEF ReadyNeverProduct
        <4>4. job[h].seen \in repos \cup {None}
          BY <1>0, <2>0
        <4> QED BY <1>0, <2>0, <4>1, <4>2, <4>3, <4>4 DEF ReadyNeverProduct
      <3>2. CASE PagesAnswered(h)
        <4>1. PICK a : a.op = "files" /\ answers' = answers \cup {a}
          <5> DEFINE a == [op |-> "files", truncated |-> truncated(h), moved |-> job[h].moved,
                           complete |-> job[h].got = files[job[h].target]]
          <5>1. answers' = answers \cup {a}
            BY <3>2 DEF PagesAnswered
          <5>2. a.op = "files"
            OBVIOUS
          <5> QED BY <5>1, <5>2
        <4> QED BY <1>0, <2>0, <4>1 DEF ReadyNeverProduct
      <3>3. CASE UNCHANGED answers
        BY <1>0, <2>0, <3>3 DEF ReadyNeverProduct
      <3> QED BY <1>1, <3>1, <3>2, <3>3
              DEF Step, CallFails, LoggedIn, NoAuth, AskViewer, Viewed, AskRepo, RepoAnswered, SendCreate,
                  Created, AskComments, CommentsAnswered, TargetMissing, Published,
                  SendDispatch, Dispatched, AskPages, PullAnswered, FilesAnswered, history
    <2> QED BY <2>1, <2>2, <2>3, <1>0 DEF Bound, Running
  <1>2. ASSUME NEW h \in Handlers, NEW j, Begins(h, j) PROVE Bound'
    <2>1. UNCHANGED <<selectedRepo, repos, answers>>
      BY <1>2 DEF Begins, workspace, github
    <2> QED BY <1>2, <2>1 DEF Bound, ReadyNeverProduct, Begins, Running, Typed, JobsTyped
  <1>3. ASSUME NEW w \in wire, Handle(w) PROVE Bound'
    <2>1. Succeeds(w) \in BOOLEAN /\ w \in Writes
      BY SucceedsType DEF Typed, WireTyped
    <2>2. \A h \in Handlers : SameButAnswered(job'[h], job[h], w, Succeeds(w))
      BY <1>3, <2>1, AnswerTyped DEF Handle, Answers, Typed, workspace, bounds
    <2>3. repos \subseteq repos' /\ (Succeeds(w) /\ w.kind = "create" => w.target \in repos')
      <3>1. CASE ~Succeeds(w)
        BY <1>3, <3>1 DEF Handle
      <3>2. CASE Succeeds(w)
        BY <1>3, <3>2 DEF Handle, Effect
      <3> QED BY <2>1, <3>1, <3>2
    <2>4. UNCHANGED <<selectedRepo, answers>>
      BY <1>3 DEF Handle, workspace, history
    <2>5. ASSUME NEW h \in Handlers, job'[h] # NoJob
          PROVE  /\ job'[h].seen \in repos' \cup {None}
                 /\ Running(h, "create", "replied")' /\ job'[h].ok => job'[h].repo \in repos'
      <3>1. CASE job'[h] = job[h]
        BY <2>3, <2>5, <3>1 DEF Bound, Running
      <3>2. CASE job'[h] # job[h]
        <4>1. job[h] \in Jobs /\ job[h] # NoJob /\ job[h].n = w.n /\ job[h].pc = "write"
              /\ job'[h].op = job[h].op /\ job'[h].seen = job[h].seen /\ job'[h].repo = job[h].repo
              /\ job'[h].ok = Succeeds(w)
          BY <2>2, <3>2, JobsAreNumbered DEF SameButAnswered
        <4>2. job[h].op = "create" => w.kind = "create" /\ w.target = job[h].repo
          BY <4>1 DEF Numbered, Typed, JobsTyped, Placed
        <4> QED BY <2>3, <4>1, <4>2 DEF Bound, Running
      <3> QED BY <3>1, <3>2
    <2> QED BY <2>3, <2>4, <2>5 DEF Bound, ReadyNeverProduct
  <1>4. ASSUME NEW w \in wire, Refuse(w) \/ Lose(w) PROVE Bound'
    <2>1. \A h \in Handlers : SameButAnswered(job'[h], job[h], w, FALSE) \/ job'[h] = job[h]
      BY <1>4, AnswerTyped DEF Refuse, Lose, Answers, Typed, workspace
    <2>2. UNCHANGED <<selectedRepo, repos, answers>>
      BY <1>4 DEF Refuse, Lose, workspace, github, history
    <2> QED BY <2>1, <2>2, JobsAreNumbered DEF Bound, ReadyNeverProduct, SameButAnswered, Running
  <1>5. ASSUME NEW r \in Repos, SomeonePushes(r) PROVE Bound'
    <2>1. \A h \in Handlers : job'[h] = job[h] \/ Marked(job'[h], job[h])
      BY <1>5, PushMarks DEF Typed
    <2>2. UNCHANGED <<selectedRepo, repos, answers>>
      BY <1>5 DEF SomeonePushes, workspace, history
    <2> QED BY <2>1, <2>2, JobsAreNumbered DEF Bound, ReadyNeverProduct, Running, Marked
  <1>6. CASE Crash
    <2>1. UNCHANGED <<repos, answers>> /\ selectedRepo' \in {selectedRepo, None}
      BY <1>6 DEF Crash, github, history
    <2> QED BY <1>6, <2>1 DEF Crash, Bound, ReadyNeverProduct
  <1>7. CASE UNCHANGED <<job, selectedRepo, repos, answers>>
    BY <1>7 DEF Bound, ReadyNeverProduct, Running
  <1> QED BY <1>1, <1>2, <1>3, <1>4, <1>5, <1>6, <1>7, Arrival
          DEF Next, vars, AskAgain, SomeoneComments, SomeoneDeletes, workspace, github, history

------------------------------------------------------------------------------
(* The files of a pull request.                                            *)

\* A handler's part: what it compares is what it read, since nobody pushed.
LEMMA StepPaged ==
    ASSUME Typed, Paged, NEW h \in Handlers, Step(h) \/ CallFails(h)
    PROVE  Paged'
  <1> DEFINE k == job[h]
             Least(a, b) == IF a < b THEN a ELSE b
             Read(j) == /\ j.op = "files" /\ j.pc # "pages" => j.total = None /\ j.got = None
                        /\ j.op = "files" /\ j.pc = "pages" /\ ~j.moved =>
                            /\ j.total # None => j.total = files[j.target]
                            /\ j.got # None => j.got \in Nat /\ j.got <= files[j.target]
  <1>0. k \in Jobs /\ k # NoJob /\ Placed(k) /\ UNCHANGED files /\ job \in [Handlers -> Jobs \cup {NoJob}]
    BY StepMoves, AtAPoint, JobsAreNumbered DEF Typed, JobsTyped, Stays, Sends, Unsent, github
  <1>1. Paged <=> (\A g \in Handlers : Read(job[g])) /\ FilesTold
    BY DEF Paged, Running
  <1>2. \A j : Read(j)' <=> Read(j)
    BY <1>0
  <1>3. ASSUME NEW j, job' = [job EXCEPT ![h] = j], Read(j) PROVE \A g \in Handlers : Read(job'[g])
    BY <1>0, <1>1, <1>3
  <1>4. Read(NoJob)
    BY JobsAreNumbered
  <1>5. \A g \in Handlers : Read(job'[g])
    <2>1. CASE AskPages(h)
      <3>1. ASSUME NEW t PROVE Read([k EXCEPT !.pc = "pages", !.target = t])
        BY <1>0, <1>1, <2>1 DEF AskPages, Running, Jobs
      <3> HIDE DEF Read
      <3> QED BY <1>3, <1>4, <2>1, <3>1 DEF AskPages
    <2>2. CASE PullAnswered(h)
      <3>1. Read([k EXCEPT !.total = files[k.target]])
        BY <1>0, <1>1, <2>2 DEF PullAnswered, Running, Jobs
      <3> HIDE DEF Read
      <3> QED BY <1>3, <2>2, <3>1 DEF PullAnswered
    <2>3. CASE FilesAnswered(h)
      <3> DEFINE got == Least(files[k.target], Least(k.limit, PageCap))
      <3>1. got \in Nat /\ got <= files[k.target]
        BY <1>0, <2>3, BoundTypes DEF FilesAnswered, Running, Jobs, Placed, Typed, StoreTyped
      <3>2. job' = [job EXCEPT ![h] = [k EXCEPT !.got = got]]
        BY <2>3 DEF FilesAnswered
      <3> HIDE DEF got
      <3>3. Read([k EXCEPT !.got = got])
        BY <1>0, <1>1, <2>3, <3>1 DEF FilesAnswered, Running, Jobs
      <3> HIDE DEF Read
      <3> QED BY <1>3, <3>2, <3>3
    <2>4. CASE AskViewer(h)
      <3>1. Read([k EXCEPT !.pc = "viewer"])
        BY <1>0, <1>1, <2>4 DEF AskViewer, resolveGithubAuth, Jobs
      <3> HIDE DEF Read
      <3> QED BY <1>3, <2>4, <3>1 DEF AskViewer
    <2>5. CASE job' = [job EXCEPT ![h] = NoJob]
      <3> HIDE DEF Read
      <3> QED BY <1>3, <1>4, <2>5
    <2>6. ASSUME k.op # "files", NEW j, Onward(j, k), job' = [job EXCEPT ![h] = j]
          PROVE  \A g \in Handlers : Read(job'[g])
      <3>1. Read(j)
        BY <2>6 DEF Onward
      <3> HIDE DEF Read
      <3> QED BY <1>3, <2>6, <3>1
    <2>7. CASE k.op # "files"
      <3> HIDE DEF Read
      <3> QED BY <2>5, <2>6, <2>7, StepMoves DEF Stays, Sends
    <2> QED BY <2>1, <2>2, <2>3, <2>4, <2>5, <2>7
            DEF Step, CallFails, LoggedIn, NoAuth, Viewed, AskRepo, RepoAnswered, SendCreate, Created,
                RemoteAnswered, AskComments, CommentsAnswered, TargetMissing, Published,
                SendDispatch, Dispatched, PagesAnswered, Stop, Running
  <1>6. FilesTold'
    <2>1. CASE PagesAnswered(h)
      <3> DEFINE a == [op |-> "files", truncated |-> truncated(h), moved |-> k.moved,
                       complete |-> k.got = files[k.target]]
      <3>1. answers' = answers \cup {a}
        BY <2>1 DEF PagesAnswered
      <3>2. ~k.moved => k.got = files[k.target] \/ k.total > k.got
        BY <1>0, <1>1, <2>1 DEF PagesAnswered, Running, Placed, Typed, StoreTyped
      <3>3. ~a.moved => a.complete \/ a.truncated
        BY <3>2 DEF truncated
      <3> HIDE DEF a
      <3> QED BY <1>1, <3>1, <3>3 DEF FilesTold
    <2>2. CASE RemoteAnswered(h)
      <3>1. PICK product : answers' = answers \cup {bindingAnswer(h, product)}
        BY <2>2 DEF RemoteAnswered
      <3>2. bindingAnswer(h, product).op = "binding"
        BY DEF bindingAnswer
      <3> QED BY <1>1, <3>1, <3>2 DEF FilesTold
    <2>3. CASE UNCHANGED answers
      BY <1>1, <2>3 DEF FilesTold
    <2> QED BY <2>1, <2>2, <2>3
            DEF Step, CallFails, LoggedIn, NoAuth, AskViewer, Viewed, AskRepo, RepoAnswered, SendCreate,
                Created, AskComments, CommentsAnswered, TargetMissing, Published,
                SendDispatch, Dispatched, AskPages, PullAnswered, FilesAnswered, history
  <1> QED BY <1>0, <1>5, <1>6 DEF Paged, Running

\* A push marks every job that is reading the pull request.
LEMMA NextPaged ==
    ASSUME Typed, Typed', Numbered, Paged, [Next]_vars
    PROVE  Paged'
  <1>1. ASSUME NEW h \in Handlers, NEW j, Begins(h, j) PROVE Paged'
    <2>1. UNCHANGED <<files, answers>>
      BY <1>1 DEF Begins, github
    <2> QED BY <1>1, <2>1 DEF Paged, FilesTold, Begins, Running, Typed, JobsTyped
  <1>2. ASSUME NEW w \in wire, Handle(w) \/ Refuse(w) \/ Lose(w) PROVE Paged'
    <2>1. ASSUME NEW h \in Handlers
          PROVE  job'[h] = job[h] \/ job'[h].op \in {"create", "publish", "dispatch"}
      <3>1. Succeeds(w) \in BOOLEAN
        BY SucceedsType DEF Typed, WireTyped
      <3>2. PICK ok \in BOOLEAN : SameButAnswered(job'[h], job[h], w, ok) \/ job'[h] = job[h]
        BY <1>2, <3>1, AnswerTyped DEF Handle, Refuse, Lose, Answers, Typed, workspace, bounds
      <3> QED BY <3>2, JobsAreNumbered DEF SameButAnswered, Typed, JobsTyped, Placed
    <2>2. UNCHANGED <<files, answers>>
      BY <1>2 DEF Handle, Refuse, Lose, github, history
    <2> QED BY <2>1, <2>2 DEF Paged, FilesTold, Running
  <1>3. ASSUME NEW r \in Repos, SomeonePushes(r) PROVE Paged'
    <2>1. \A h \in Handlers : \/ job'[h] = job[h] /\ ~(Running(h, "files", "pages") /\ job[h].target = r)
                              \/ Marked(job'[h], job[h])
      BY <1>3, PushMarks DEF Typed
    <2>2. UNCHANGED answers /\ \A q \in Repos \ {r} : files'[q] = files[q]
      BY <1>3 DEF SomeonePushes, history, Typed, StoreTyped
    <2>3. \A h \in Handlers : Running(h, "files", "pages") => job[h].target \in Repos
      BY AtAPoint DEF Running, Typed, Placed
    <2> QED BY <2>1, <2>2, <2>3 DEF Paged, FilesTold, Running, Marked
  <1>4. CASE Crash
    BY <1>4, JobsAreNumbered DEF Crash, Paged, FilesTold, Running, history
  <1>5. CASE UNCHANGED <<job, files, answers>>
    BY <1>5 DEF Paged, FilesTold, Running
  <1> QED BY <1>1, <1>2, <1>3, <1>4, <1>5, StepPaged, Arrival
          DEF Next, vars, AskAgain, SomeoneComments, SomeoneDeletes, github, history

\* The five invariants hold at first.
LEMMA InitRest == Init => Numbered /\ Counted /\ Bound /\ Paged
  <1> SUFFICES ASSUME Init PROVE Numbered /\ Counted /\ Bound /\ Paged
    OBVIOUS
  <1>1. Numbered
    BY DEF Init, Numbered
  <1>2. Counted
    <2>1. \A r \in Repos : OnWire(r) = {} /\ Acknowledged(r) = {}
      BY JobsAreNumbered DEF Init, OnWire, Acknowledged, Running
    <2>2. Cardinality({}) = 0
      BY FS_EmptySet
    <2>3. \A r \in Repos : dispatched[r] = 0 /\ sent[r] = 0 /\ accepted[r] = 0
      BY DEF Init
    <2> QED BY <2>1, <2>2, <2>3 DEF Counted
  <1>3. Bound
    BY DEF Init, Bound, ReadyNeverProduct
  <1>4. Paged
    BY JobsAreNumbered DEF Init, Paged, FilesTold, Running
  <1> QED BY <1>1, <1>2, <1>3, <1>4

Base == Typed /\ Numbered /\ Counted /\ Bound /\ Paged
LEMMA BaseHolds == Spec => []Base
  <1>1. Init => Base
    BY InitTyped, InitRest DEF Base
  <1>2. Base /\ [Next]_vars => Base'
    BY NextTyped, NextNumbered, NextCounted, NextBound, NextPaged DEF Base
  <1> QED BY <1>1, <1>2, PTL DEF Spec

\* A dispatch that GitHub acknowledged has started a run, and no run was started
\* that was not sent, whatever answers are lost, writes refused or handlers given up
\* (dispatchWorkflow).
THEOREM NoDispatchTwice == Spec => []DispatchedOnce
  <1>1. Base => DispatchedOnce
    <2> SUFFICES ASSUME Base, NEW r \in Repos
                 PROVE  accepted[r] <= dispatched[r] /\ dispatched[r] <= sent[r]
      BY DEF DispatchedOnce
    <2>1. Typed /\ Counted
      BY DEF Base
    <2>2. dispatched[r] \in Nat /\ accepted[r] \in Nat /\ sent[r] \in Nat
      BY <2>1 DEF Typed, StoreTyped
    <2> QED BY <2>1, <2>2, CountsAreFinite DEF Counted
  <1> QED BY <1>1, BaseHolds, PTL

\* A binding reported ready names a repository that exists and is not the product's
\* (repoBindingStatus).
THEOREM BindingSafe == Spec => []ReadyNeverProduct
  <1>1. Base => ReadyNeverProduct
    BY DEF Base, Bound
  <1> QED BY <1>1, BaseHolds, PTL

\* The two reads of a pull request tell a partial list from a whole one, for any
\* page size and limit (listPullRequestFiles).
THEOREM PartialFilesTold == Spec => []FilesTold
  <1>1. Base => FilesTold
    BY DEF Base, Paged
  <1> QED BY <1>1, BaseHolds, PTL

------------------------------------------------------------------------------
(* Comments: one of each proof, and never an older packet.                 *)

\* What the steps do to jobs and writes, as far as comments are concerned: nothing
\* is sent twice, and no number of the past can become an id again.
LEMMA NumbersPass ==
    ASSUME Base, Base', [Next]_vars, NEW n \in 1..requests
    PROVE  requests <= requests' /\ (MayBecome(n)' => MayBecome(n))
  <1> USE DEF Base, Typed
  <1>0. n # 0 /\ requests \in Nat
    BY DEF StoreTyped
  <1>1. ASSUME NEW h \in Handlers, NEW j, Stays(h, j)
        PROVE  requests <= requests' /\ (MayBecome(n)' => MayBecome(n))
    BY <1>0, <1>1, JobsAreNumbered DEF Stays, Onward, Unsent, MayBecome, JobsTyped
  <1>2. ASSUME NEW h \in Handlers, NEW j, NEW w, Sends(h, j, w)
        PROVE  requests <= requests' /\ (MayBecome(n)' => MayBecome(n))
    BY <1>0, <1>2, JobsAreNumbered DEF Sends, Onward, Unsent, MayBecome, JobsTyped, bounds
  <1>3. ASSUME NEW h \in Handlers, NEW j, Begins(h, j)
        PROVE  requests <= requests' /\ (MayBecome(n)' => MayBecome(n))
    BY <1>0, <1>3, JobsAreNumbered DEF Begins, MayBecome, JobsTyped
  <1>4. ASSUME NEW w \in wire, Handle(w) \/ Refuse(w) \/ Lose(w)
        PROVE  requests <= requests' /\ (MayBecome(n)' => MayBecome(n))
    <2>1. ASSUME NEW h \in Handlers
          PROVE  job'[h] = job[h] \/ job'[h].pc = "replied"
      <3>1. Succeeds(w) \in BOOLEAN
        BY SucceedsType DEF WireTyped
      <3>2. PICK ok \in BOOLEAN : SameButAnswered(job'[h], job[h], w, ok) \/ job'[h] = job[h]
        BY <1>4, <3>1, AnswerTyped DEF Handle, Refuse, Lose, Answers, workspace, bounds
      <3> QED BY <3>2 DEF SameButAnswered
    <2>2. wire' \subseteq wire /\ requests' = requests
      BY <1>4 DEF Handle, Refuse, Lose, bounds
    <2> QED BY <1>0, <2>1, <2>2 DEF MayBecome
  <1>5. ASSUME NEW r \in Repos, SomeonePushes(r)
        PROVE  requests <= requests' /\ (MayBecome(n)' => MayBecome(n))
    <2>1. \A h \in Handlers : job'[h] = job[h] \/ Marked(job'[h], job[h])
      BY <1>5, PushMarks
    <2> QED BY <1>0, <1>5, <2>1 DEF SomeonePushes, MayBecome, Marked
  <1>6. CASE Crash
    BY <1>0, <1>6, JobsAreNumbered DEF Crash, MayBecome
  <1>7. CASE UNCHANGED <<job, wire, requests>>
    BY <1>0, <1>7 DEF MayBecome
  <1> QED BY <1>1, <1>2, <1>3, <1>4, <1>5, <1>6, <1>7, StepMoves, Arrival
          DEF Next, vars, AskAgain, SomeoneComments, SomeoneDeletes, bounds

\* What can happen to the comments of a pull request: nothing, a comment of somebody
\* else, a deletion, or a write that GitHub handles.
Elsewhere(r) == \A q \in Repos \ {r} : comments'[q] = comments[q]
Remark(r) ==
    LET c == comments[r]
        d == comments'[r]
    IN  /\ DOMAIN c = 1..Len(c) /\ DOMAIN d = 1..(Len(c) + 1)
        /\ \A i \in DOMAIN c : d[i] = c[i]
        /\ d[Len(c) + 1] = Comment(None, 0, 0)
Writing(w) == /\ Elsewhere(w.target) /\ Handle(w)
              /\ \/ w.kind = "comment" /\ Added(w)
                 \/ w.kind = "patch" /\ Replaced(w)
LEMMA CommentChanges ==
    ASSUME Base, Base', [Next]_vars
    PROVE  \/ UNCHANGED comments
           \/ \E r \in Repos : Elsewhere(r) /\ Remark(r) /\ UNCHANGED <<job, wire>>
           \/ \E r \in Repos : \E i \in DOMAIN comments[r] :
                Elsewhere(r) /\ Without(comments[r], comments'[r], i) /\ UNCHANGED <<job, wire>>
           \/ \E w \in wire : Writing(w)
  <1> USE DEF Base, Typed
  <1>1. ASSUME NEW w \in wire, Handle(w)
        PROVE  UNCHANGED comments \/ Writing(w)
    <2>1. CASE ~Succeeds(w)
      BY <1>1, <2>1 DEF Handle
    <2>2. CASE Succeeds(w)
      <3>1. Effect(w) /\ w \in Writes
        BY <1>1, <2>2 DEF Handle, WireTyped
      <3>2. w.kind \in {"comment", "patch"} \/ UNCHANGED comments
        BY <3>1, EffectOnComments
      <3> QED BY <1>1, <3>1, <3>2, EffectOnComments DEF Elsewhere, Writing
    <2> QED BY <2>1, <2>2
  <1>2. ASSUME NEW r \in Repos, SomeoneComments(r)
        PROVE  Elsewhere(r) /\ Remark(r) /\ UNCHANGED <<job, wire>>
    <2> DEFINE x == Comment(None, 0, 0)
               c == comments[r]
    <2>1. x \in Comments /\ c \in Seq(Comments)
      BY DEF Comment, Comments, CommentsTyped
    <2>2. /\ DOMAIN c = 1..Len(c) /\ DOMAIN Append(c, x) = 1..(Len(c) + 1)
          /\ \A i \in DOMAIN c : Append(c, x)[i] = c[i]
          /\ Append(c, x)[Len(c) + 1] = x
      BY <2>1, AppendProperties
    <2>3. comments' = [comments EXCEPT ![r] = Append(c, x)] /\ UNCHANGED <<job, wire>>
      BY <1>2 DEF SomeoneComments
    <2>4. comments'[r] = Append(c, x) /\ Elsewhere(r)
      BY <2>3 DEF Elsewhere, CommentsTyped
    <2> HIDE DEF x
    <2> QED BY <2>2, <2>3, <2>4 DEF Remark, x
  <1>3. ASSUME NEW r \in Repos, SomeoneDeletes(r)
        PROVE  \E i \in DOMAIN comments[r] :
                Elsewhere(r) /\ Without(comments[r], comments'[r], i) /\ UNCHANGED <<job, wire>>
    <2>1. PICK i \in DOMAIN comments[r] : comments' = [comments EXCEPT ![r] = RemoveAt(comments[r], i)]
      BY <1>3 DEF SomeoneDeletes
    <2>2. Without(comments[r], RemoveAt(comments[r], i), i)
      BY Deletion DEF CommentsTyped
    <2>3. comments'[r] = RemoveAt(comments[r], i) /\ Elsewhere(r)
      BY <2>1 DEF Elsewhere, CommentsTyped
    <2> QED BY <1>3, <2>2, <2>3 DEF SomeoneDeletes
  <1>4. ASSUME NEW h \in Handlers, Step(h) \/ CallFails(h) \/ Request(h) PROVE UNCHANGED comments
    BY <1>4, StepMoves, Arrival DEF Stays, Sends, Begins, github
  <1>5. CASE UNCHANGED vars \/ (\E w \in wire : Refuse(w) \/ Lose(w)) \/ Crash
             \/ (\E p \in Proofs : AskAgain(p)) \/ (\E r \in Repos : SomeonePushes(r))
    <2>1. UNCHANGED comments
      BY <1>5 DEF vars, Refuse, Lose, AskAgain, SomeonePushes, Crash, github
    <2> QED BY <2>1
  <1>6. CASE \E h \in Handlers : Step(h) \/ CallFails(h) \/ Request(h)
    BY <1>4, <1>6
  <1>7. CASE \E w \in wire : Handle(w)
    BY <1>1, <1>7
  <1>8. CASE \E r \in Repos : SomeoneComments(r) \/ SomeoneDeletes(r)
    BY <1>2, <1>3, <1>8
  <1> QED BY <1>5, <1>6, <1>7, <1>8 DEF Next

\* A deletion is seen from the comments that are left: each was there.
LEMMA LeftBehind ==
    ASSUME NEW c, NEW d, NEW i, Without(c, d, i), Len(c) \in Nat, i \in 1..Len(c)
    PROVE  /\ \A k \in DOMAIN d : \E m \in DOMAIN c : d[k] = c[m]
           /\ \A k, l \in DOMAIN d : k # l =>
                \E m, n \in DOMAIN c : m # n /\ d[k] = c[m] /\ d[l] = c[n]
  <1> DEFINE at(k) == IF k < i THEN k ELSE k + 1
  <1>1. \A k \in DOMAIN d : k \in Int /\ at(k) \in DOMAIN c /\ d[k] = c[at(k)]
    BY DEF Without
  <1>2. \A k, l \in DOMAIN d : k # l => at(k) # at(l)
    BY <1>1
  <1> HIDE DEF at
  <1> QED BY <1>1, <1>2

LEMMA LengthOf == ASSUME Base, NEW r \in Repos
                  PROVE  Len(comments[r]) \in Nat /\ DOMAIN comments[r] = 1..Len(comments[r])
  <1>1. comments[r] \in Seq(Comments)
    BY DEF Base, Typed, CommentsTyped
  <1> QED BY <1>1, LenProperties

\* A publication that GitHub handles has a number that is not yet an id, and never
\* becomes one again.
LEMMA HandledOnce ==
    ASSUME Base, Base', [Next]_vars, NEW w \in wire, Writing(w)
    PROVE  /\ w.n \in 1..requests /\ MayBecome(w.n) /\ ~MayBecome(w.n)'
           /\ w.proof \in Proofs /\ w.target \in Repos /\ w.version \in Nat
  <1> USE DEF Base, Typed
  <1>1. w \in Writes /\ w.n \in 1..requests /\ w.proof \in Proofs /\ MayBecome(w.n)
    BY DEF WireTyped, Packed, Writing, StoreTyped, Writes, Nats1, MayBecome
  <1>2. Succeeds(w) \in BOOLEAN
    BY <1>1, SucceedsType
  <1>3. \A h \in Handlers : SameButAnswered(job'[h], job[h], w, Succeeds(w))
    BY <1>2, AnswerTyped DEF Writing, Handle, Answers, workspace, bounds
  <1>4. \A h \in Handlers : job'[h].n = w.n /\ w.n # 0 => job'[h].pc \in {"write", "replied"}
    BY <1>3 DEF SameButAnswered, Numbered
  <1>5. \A v \in wire' : v.n # w.n
    BY DEF Writing, Handle, Numbered
  <1> QED BY <1>1, <1>4, <1>5 DEF MayBecome, Writes

\* Ids stay ids, of one comment each.
LEMMA NextIdentified ==
    ASSUME Base, Base', [Next]_vars, Identified, Aimed
    PROVE  Identified'
  <1> DEFINE Named(c) == /\ c.id <= requests
                         /\ c.id = 0 => c = Comment(None, 0, 0)
                         /\ c.id # 0 => c.proof \in Proofs /\ ~MayBecome(c.id)
             Once(s) == \A i, k \in DOMAIN s : s[i].id # 0 /\ s[k].id = s[i].id => k = i
  <1>1. Identified <=> \A r \in Repos : Once(comments[r]) /\ \A i \in DOMAIN comments[r] : Named(comments[r][i])
    BY DEF Identified
  <1>2. Identified' <=> \A r \in Repos : Once(comments'[r]) /\ \A i \in DOMAIN comments'[r] : Named(comments[r][i])'
    BY DEF Identified
  <1>3. requests \in Nat /\ requests' \in Nat /\ requests <= requests'
    <2>1. requests' \in Nat /\ requests \in Nat
      BY DEF Base, Typed, StoreTyped
    <2>2. CASE requests = 0
      BY <2>1, <2>2
    <2>3. CASE requests # 0
      <3>1. 1 \in 1..requests
        BY <2>1, <2>3
      <3> QED BY <2>1, <3>1, NumbersPass
    <2> QED BY <2>1, <2>2, <2>3
  <1>4. ASSUME NEW r \in Repos, NEW k \in DOMAIN comments'[r],
               NEW m \in DOMAIN comments[r], comments'[r][k] = comments[r][m]
        PROVE  Named(comments[r][k])'
    <2>1. PICK n : n = comments[r][m].id
      OBVIOUS
    <2>2. n \in Nat /\ n <= requests /\ Named(comments[r][m])
      <3>1. comments[r][m] \in Comments
        BY DEF Base, Typed, CommentsTyped
      <3> QED BY <1>1, <2>1, <3>1 DEF Comments
    <2>3. n # 0 => ~MayBecome(n)'
      <3>1. CASE n # 0
        <4>1. n \in 1..requests
          BY <1>3, <2>2, <3>1
        <4>2. ~MayBecome(n)
          BY <2>1, <2>2, <3>1
        <4> QED BY <4>1, <4>2, NumbersPass
      <3> QED BY <3>1
    <2>4. (comments[r][k].id)' = n
      BY <1>4, <2>1
    <2>5. n # 0 => ~MayBecome(comments[r][k].id)'
      BY <2>3, <2>4 DEF MayBecome
    <2>6. n <= requests' /\ requests' \in Nat
      BY <1>3, <2>2
    <2> QED BY <1>4, <2>1, <2>2, <2>4, <2>5, <2>6
  <1> HIDE DEF Named
  <1>5. ASSUME NEW r \in Repos, comments'[r] = comments[r]
        PROVE  Once(comments'[r]) /\ \A i \in DOMAIN comments'[r] : Named(comments[r][i])'
    BY <1>1, <1>4, <1>5
  <1>6. CASE UNCHANGED comments
    BY <1>2, <1>5, <1>6
  <1>7. ASSUME NEW r \in Repos, Elsewhere(r), Remark(r) PROVE Identified'
    <2>1. Comment(None, 0, 0).id = 0 /\ Comment(None, 0, 0).id <= requests'
      BY <1>3 DEF Comment
    <2>2. \A i \in DOMAIN comments'[r] : Named(comments[r][i])'
      <3>1. ASSUME NEW i \in DOMAIN comments'[r], i \notin DOMAIN comments[r] PROVE Named(comments[r][i])'
        <4>1. comments'[r][i] = Comment(None, 0, 0)
          BY <1>7, <3>1, LengthOf DEF Remark
        <4> QED BY <2>1, <4>1 DEF Named
      <3>2. ASSUME NEW i \in DOMAIN comments[r] PROVE comments'[r][i] = comments[r][i]
        BY <1>7 DEF Remark
      <3> QED BY <1>4, <3>1, <3>2
    <2>3. Once(comments'[r])
      BY <1>1, <1>7, <2>1, LengthOf DEF Remark
    <2> QED BY <1>2, <1>5, <1>7, <2>2, <2>3 DEF Elsewhere
  <1>8. ASSUME NEW r \in Repos, NEW i \in DOMAIN comments[r], Elsewhere(r),
               Without(comments[r], comments'[r], i)
        PROVE  Identified'
    <2>1. i \in 1..Len(comments[r]) /\ Len(comments[r]) \in Nat
      BY LengthOf
    <2>2. \A k \in DOMAIN comments'[r] : \E m \in DOMAIN comments[r] : comments'[r][k] = comments[r][m]
      BY <1>8, <2>1, LeftBehind
    <2>3. Once(comments'[r])
      BY <1>1, <1>8, <2>1, LeftBehind
    <2> QED BY <1>2, <1>4, <1>5, <1>8, <2>2, <2>3 DEF Elsewhere
  <1>9. ASSUME NEW w \in wire, Writing(w) PROVE Identified'
    <2>0. /\ w.n \in 1..requests /\ MayBecome(w.n) /\ ~MayBecome(w.n)'
          /\ w.proof \in Proofs /\ w.target \in Repos
      BY <1>9, HandledOnce
    <2> DEFINE c == comments[w.target]
               d == comments'[w.target]
    <2>1. CASE w.kind = "comment" /\ Added(w)
      <3> DEFINE x == Comment(w.proof, w.version, w.n)
      <3>1. x.id = w.n /\ x.proof = w.proof
        BY DEF Comment
      <3>2. \A i \in DOMAIN c : c[i].id # w.n
        BY <1>1, <2>0 DEF Named
      <3>3. /\ DOMAIN c = 1..Len(c) /\ Len(c) \in Nat /\ DOMAIN d = 1..(Len(c) + 1)
            /\ \A i \in DOMAIN c : d[i] = c[i]
            /\ d[Len(c) + 1] = x
        BY <2>0, <2>1, LengthOf DEF Added
      <3> HIDE DEF x
      <3>4. Once(d)
        <4>1. Once(c)
          BY <1>1, <2>0
        <4>2. \A i \in DOMAIN d : i \in DOMAIN c \/ (i = Len(c) + 1 /\ d[i] = x)
          BY <3>3
        <4> HIDE DEF c, d
        <4> QED BY <3>1, <3>2, <3>3, <4>1, <4>2
      <3>5. \A i \in DOMAIN d : Named(comments[w.target][i])'
        <4>1. ASSUME NEW i \in DOMAIN d, i \notin DOMAIN c PROVE Named(comments[w.target][i])'
          <5>1. d[i] = x
            BY <3>3, <4>1
          <5> QED BY <1>3, <2>0, <3>1, <5>1 DEF Named
        <4> QED BY <1>4, <2>0, <3>3, <4>1
      <3> QED BY <1>2, <1>5, <1>9, <2>0, <3>4, <3>5 DEF Elsewhere, Writing
    <2>2. CASE w.kind = "patch" /\ Replaced(w)
      <3> DEFINE x == Comment(w.proof, w.version, w.id)
      <3>1. x.id = w.id /\ x.proof = w.proof
        BY DEF Comment
      <3>2. w.id # 0 /\ w.id \in 1..requests /\ ~MayBecome(w.id)
        BY <2>2 DEF Aimed, Base, Typed, StoreTyped, WireTyped, Writes
      <3>3. ~MayBecome(w.id)'
        BY <3>2, NumbersPass
      <3>4. DOMAIN d = DOMAIN c /\ \A i \in DOMAIN c : d[i] = IF c[i].id = w.id THEN x ELSE c[i]
        BY <2>2 DEF Replaced
      <3> HIDE DEF x
      <3>5. \A i \in DOMAIN c : d[i].id = c[i].id
        BY <3>1, <3>4
      <3>6. Once(d)
        BY <1>1, <2>0, <3>4, <3>5
      <3>7. \A i \in DOMAIN d : Named(comments[w.target][i])'
        <4>1. ASSUME NEW i \in DOMAIN d, c[i].id = w.id PROVE Named(comments[w.target][i])'
          <5>1. d[i] = x
            BY <3>4, <4>1
          <5> QED BY <1>3, <2>0, <3>1, <3>2, <3>3, <5>1 DEF Named
        <4> QED BY <1>4, <2>0, <3>4, <4>1
      <3> QED BY <1>2, <1>5, <1>9, <2>0, <3>6, <3>7 DEF Elsewhere, Writing
    <2> QED BY <1>9, <2>1, <2>2 DEF Writing
  <1> QED BY <1>6, <1>7, <1>8, <1>9, CommentChanges

\* A comment that is there after a step was there before, or its proof is None, or
\* it was written by the write that GitHub handled.
LEMMA WhereFrom ==
    ASSUME Base, Base', [Next]_vars, Aimed, NEW r \in Repos, NEW k \in DOMAIN comments'[r],
           comments'[r][k].proof \in Proofs
    PROVE  \/ \E m \in DOMAIN comments[r] : comments'[r][k] = comments[r][m]
           \/ \E w \in wire : /\ Writing(w) /\ w.target = r
                              /\ comments'[r][k].proof = w.proof
                              /\ comments'[r][k].version = w.version
                              /\ \/ w.kind = "comment" /\ comments'[r][k].id = w.n
                                 \/ /\ w.kind = "patch" /\ comments'[r][k].id = w.id
                                    /\ k \in DOMAIN comments[r] /\ comments[r][k].id = w.id
                                    /\ comments[r][k].proof = w.proof
  <1>1. CASE UNCHANGED comments
    BY <1>1
  <1>2. ASSUME NEW q \in Repos, Elsewhere(q), Remark(q)
        PROVE  \E m \in DOMAIN comments[r] : comments'[r][k] = comments[r][m]
    <2>1. CASE q # r
      BY <1>2, <2>1 DEF Elsewhere
    <2>2. CASE q = r
      <3>1. k \in DOMAIN comments[r] \/ comments'[r][k] = Comment(None, 0, 0)
        BY <1>2, <2>2, LengthOf DEF Remark
      <3>2. Comment(None, 0, 0).proof \notin Proofs
        BY NoneIsNothing DEF Comment
      <3> QED BY <1>2, <2>2, <3>1, <3>2 DEF Remark
    <2> QED BY <2>1, <2>2
  <1>3. ASSUME NEW q \in Repos, NEW i \in DOMAIN comments[q], Elsewhere(q),
               Without(comments[q], comments'[q], i)
        PROVE  \E m \in DOMAIN comments[r] : comments'[r][k] = comments[r][m]
    <2>1. CASE q # r
      BY <1>3, <2>1 DEF Elsewhere
    <2>2. CASE q = r
      BY <1>3, <2>2, LengthOf, LeftBehind
    <2> QED BY <2>1, <2>2
  <1>4. ASSUME NEW w \in wire, Writing(w)
        PROVE  \/ \E m \in DOMAIN comments[r] : comments'[r][k] = comments[r][m]
               \/ /\ w.target = r
                  /\ comments'[r][k].proof = w.proof
                  /\ comments'[r][k].version = w.version
                  /\ \/ w.kind = "comment" /\ comments'[r][k].id = w.n
                     \/ /\ w.kind = "patch" /\ comments'[r][k].id = w.id
                        /\ k \in DOMAIN comments[r] /\ comments[r][k].id = w.id
                        /\ comments[r][k].proof = w.proof
    <2>1. CASE w.target # r
      BY <1>4, <2>1 DEF Writing, Elsewhere
    <2>2. CASE w.target = r /\ w.kind = "comment" /\ Added(w)
      <3>1. k \in DOMAIN comments[r] \/ comments'[r][k] = Comment(w.proof, w.version, w.n)
        BY <2>2, LengthOf DEF Added
      <3> QED BY <2>2, <3>1 DEF Added, Comment
    <2>3. CASE w.target = r /\ w.kind = "patch" /\ Replaced(w)
      <3>1. k \in DOMAIN comments[r]
        BY <2>3 DEF Replaced
      <3>2. CASE comments[r][k].id # w.id
        BY <2>3, <3>1, <3>2 DEF Replaced
      <3>3. CASE comments[r][k].id = w.id
        <4>1. comments'[r][k] = Comment(w.proof, w.version, w.id)
          BY <2>3, <3>1, <3>3 DEF Replaced
        <4> QED BY <2>3, <3>1, <3>3, <4>1 DEF Aimed, Comment
      <3> QED BY <3>2, <3>3
    <2> QED BY <1>4, <2>1, <2>2, <2>3 DEF Writing
  <1> QED BY <1>1, <1>2, <1>3, <1>4, CommentChanges

\* What the step does to writes: the ones that go on are the old ones, and at most
\* one that a search has just prepared.
LEMMA WhereSent ==
    ASSUME Base, Base', [Next]_vars, NEW v \in wire'
    PROVE  v \in wire \/ \E h \in Handlers : \E j : Sends(h, j, v)
  <1>1. ASSUME NEW h \in Handlers, Step(h) \/ CallFails(h)
        PROVE  v \in wire \/ \E j : Sends(h, j, v)
    BY <1>1, StepMoves DEF Base, Stays, Sends
  <1>2. ASSUME NEW h \in Handlers, Request(h) PROVE v \in wire
    BY <1>2, Arrival DEF Base, Begins
  <1>3. CASE \/ UNCHANGED vars \/ Crash
             \/ \E w \in wire : Handle(w) \/ Refuse(w) \/ Lose(w)
             \/ \E p \in Proofs : AskAgain(p)
             \/ \E r \in Repos : SomeoneComments(r) \/ SomeoneDeletes(r) \/ SomeonePushes(r)
    BY <1>3 DEF vars, Crash, Handle, Refuse, Lose, AskAgain, SomeoneComments, SomeoneDeletes,
                SomeonePushes
  <1> QED BY <1>1, <1>2, <1>3 DEF Next

\* A patch is aimed at a comment of its proof when it is sent, and the comment stays
\* that proof's until it is gone.
LEMMA NextAimed ==
    ASSUME Base, Base', [Next]_vars, Identified, Aimed
    PROVE  Aimed'
  <1> SUFFICES ASSUME NEW v \in wire', v.kind = "patch"
               PROVE  /\ v.id # 0 /\ v.id <= requests' /\ ~MayBecome(v.id)'
                      /\ \A k \in DOMAIN comments'[v.target] :
                            comments'[v.target][k].id = v.id => comments'[v.target][k].proof = v.proof
    BY DEF Aimed
  <1> DEFINE r == v.target
  <1>1. v \in Writes /\ v.proof \in Proofs /\ requests \in Nat /\ requests' \in Nat
    BY DEF Base, Typed, WireTyped, Packed, StoreTyped
  <1>2. /\ v.id # 0 /\ v.id <= requests /\ ~MayBecome(v.id)
        /\ \A m \in DOMAIN comments[r] : comments[r][m].id = v.id => comments[r][m].proof = v.proof
    <2>1. CASE v \in wire
      BY <2>1 DEF Aimed
    <2>2. ASSUME NEW h \in Handlers, NEW j, Sends(h, j, v)
          PROVE  /\ v.id # 0 /\ v.id <= requests /\ ~MayBecome(v.id)
                 /\ \A m \in DOMAIN comments[r] : comments[r][m].id = v.id => comments[r][m].proof = v.proof
      <3>1. PICK i \in CommentsOf(r, v.proof) : comments[r][i].id = v.id
        BY <2>2 DEF Sends
      <3>2. i \in DOMAIN comments[r] /\ comments[r][i].proof = v.proof /\ r \in Repos
        BY <1>1, <3>1 DEF CommentsOf, Writes
      <3>3. comments[r][i].id # 0
        BY <1>1, <3>2, NoneIsNothing DEF Identified, Comment
      <3> QED BY <3>1, <3>2, <3>3 DEF Identified
    <2> QED BY <2>1, <2>2, WhereSent
  <1>3. v.id \in 1..requests /\ r \in Repos
    BY <1>1, <1>2 DEF Writes
  <1>4. requests <= requests' /\ ~MayBecome(v.id)'
    BY <1>2, <1>3, NumbersPass
  <1>5. ASSUME NEW k \in DOMAIN comments'[r], comments'[r][k].id = v.id
        PROVE  comments'[r][k].proof = v.proof
    <2>1. comments'[r][k].proof \in Proofs
      BY <1>2, <1>3, <1>5, NextIdentified DEF Identified
    <2>2. ASSUME NEW w \in wire, Writing(w), comments'[r][k].id = w.n PROVE FALSE
      BY <1>2, <1>5, <2>2, HandledOnce
    <2> QED BY <1>2, <1>3, <1>5, <2>1, <2>2, WhereFrom
  <1> QED BY <1>1, <1>2, <1>3, <1>4, <1>5

\* Publications that do not overlap are one job and one write: a second one would
\* have found the first, as a rival.
LEMMA NextAlone ==
    ASSUME Base, Base', [Next]_vars, Alone
    PROVE  Alone'
  <1> USE DEF Base, Typed
  <1>1. ASSUME NEW h \in Handlers, NEW j, Stays(h, j) PROVE Alone'
    BY <1>1, JobsAreNumbered, NoneIsNothing DEF Stays, Onward, Alone, JobsTyped
  <1>2. ASSUME NEW h \in Handlers, NEW j, NEW w, Sends(h, j, w) PROVE Alone'
    <2>1. \A g \in Handlers : job'[g].proof = job[g].proof /\ job'[g].n = job[g].n
      BY <1>2 DEF Sends, Onward, JobsTyped
    <2>2. \A v \in wire : v.proof = w.proof /\ w.proof \in Proofs \ overlapped => FALSE
      BY <1>2 DEF Sends, Onward, Unsent, Alone, Numbered
    <2>3. w.proof = job[h].proof /\ w.n = job[h].n /\ wire' = wire \cup {w}
          /\ UNCHANGED overlapped
      BY <1>2 DEF Sends, Onward
    <2> QED BY <2>1, <2>2, <2>3 DEF Alone
  <1>3. ASSUME NEW h \in Handlers, NEW j, Begins(h, j) PROVE Alone'
    <2>1. UNCHANGED wire /\ overlapped \subseteq overlapped' /\ job'[h] = j
          /\ \A g \in Handlers \ {h} : job'[g] = job[g]
      BY <1>3 DEF Begins, JobsTyped
    <2>2. j.proof \in Proofs \ overlapped' =>
            /\ \A g \in Handlers \ {h} : job[g].proof # j.proof
            /\ \A w \in wire : w.proof # j.proof
      BY <1>3 DEF Begins
    <2> QED BY <2>1, <2>2 DEF Alone
  <1>4. ASSUME NEW w \in wire, Handle(w) \/ Refuse(w) \/ Lose(w) PROVE Alone'
    <2>1. ASSUME NEW h \in Handlers PROVE job'[h].proof = job[h].proof /\ job'[h].n = job[h].n
      <3>1. Succeeds(w) \in BOOLEAN
        BY SucceedsType DEF WireTyped
      <3>2. PICK ok \in BOOLEAN : SameButAnswered(job'[h], job[h], w, ok) \/ job'[h] = job[h]
        BY <1>4, <3>1, AnswerTyped DEF Handle, Refuse, Lose, Answers, workspace, bounds
      <3> QED BY <3>2 DEF SameButAnswered
    <2>2. wire' \subseteq wire /\ UNCHANGED overlapped
      BY <1>4 DEF Handle, Refuse, Lose, history
    <2> QED BY <2>1, <2>2 DEF Alone
  <1>5. ASSUME NEW r \in Repos, SomeonePushes(r) PROVE Alone'
    <2>1. \A h \in Handlers : job'[h] = job[h] \/ Marked(job'[h], job[h])
      BY <1>5, PushMarks
    <2>2. \A h \in Handlers : job'[h].proof = job[h].proof /\ job'[h].n = job[h].n
      BY <2>1 DEF Marked
    <2> QED BY <1>5, <2>2 DEF SomeonePushes, Alone, history
  <1>6. CASE Crash
    BY <1>6, JobsAreNumbered, NoneIsNothing DEF Crash, Alone, history
  <1>7. CASE UNCHANGED <<job, wire, overlapped>>
    BY <1>7 DEF Alone
  <1> QED BY <1>1, <1>2, <1>3, <1>4, <1>5, <1>6, <1>7, StepMoves, Arrival
          DEF Next, vars, AskAgain, SomeoneComments, SomeoneDeletes, history

\* While a publication that does not overlap another is under way nobody else writes
\* a comment of its proof: when a write is handled, no other job or write has its proof.
LEMMA NobodyElse ==
    ASSUME Base, Alone, NEW w \in wire, Writing(w), w.proof \in Proofs \ overlapped
    PROVE  /\ \A h \in Handlers : job[h].proof = w.proof => job[h].pc = "write"
           /\ \A v \in wire : v.proof = w.proof => v = w
  BY DEF Base, Alone, Numbered

\* A job begins to search in one step, which fixes what it will write.
LEMMA SearchBegins ==
    ASSUME Base, Base', [Next]_vars, NEW h \in Handlers, Running(h, "publish", "search")',
           job'[h] # job[h]
    PROVE  job'[h].version = newest[job'[h].proof] /\ UNCHANGED comments
  <1> USE DEF Base, Typed
  <1>1. ASSUME NEW g \in Handlers, NEW j, Stays(g, j)
        PROVE  job'[h].version = newest[job'[h].proof] /\ UNCHANGED comments
    BY <1>1 DEF Stays, JobsTyped, Running, github
  <1>2. ASSUME NEW g \in Handlers, NEW j, NEW w, Sends(g, j, w) PROVE FALSE
    BY <1>2 DEF Sends, JobsTyped, Running
  <1>3. ASSUME NEW g \in Handlers, NEW j, Begins(g, j) PROVE FALSE
    BY <1>3 DEF Begins, JobsTyped, Running
  <1>4. ASSUME NEW w \in wire, Handle(w) \/ Refuse(w) \/ Lose(w) PROVE FALSE
    <2>1. Succeeds(w) \in BOOLEAN
      BY SucceedsType DEF WireTyped
    <2>2. PICK ok \in BOOLEAN : SameButAnswered(job'[h], job[h], w, ok) \/ job'[h] = job[h]
      BY <1>4, <2>1, AnswerTyped DEF Handle, Refuse, Lose, Answers, workspace, bounds
    <2> QED BY <2>2 DEF SameButAnswered, Running
  <1>5. ASSUME NEW r \in Repos, SomeonePushes(r) PROVE FALSE
    BY <1>5, PushMarks DEF Marked, Running
  <1>6. CASE Crash
    BY <1>6, JobsAreNumbered DEF Crash, Running
  <1> QED BY <1>1, <1>2, <1>3, <1>4, <1>5, <1>6, StepMoves, Arrival
          DEF Next, vars, AskAgain, SomeoneComments, SomeoneDeletes

\* So what it found when it searched is what it writes upon.
LEMMA NextNewer ==
    ASSUME Base, Base', [Next]_vars, Identified, Aimed, Alone, Newer
    PROVE  Newer'
  <1> DEFINE Old(p, n) == \A r \in Repos : \A i \in CommentsOf(r, p) : comments[r][i].version <= n
             Covered(w) == /\ Old(w.proof, w.version)
                           /\ w.kind = "comment" /\ w.target \notin crowded =>
                                CommentsOf(w.target, w.proof) = {}
             \* No step adds a comment of the proof.
             Still(p) == \A r \in Repos : \A k \in CommentsOf(r, p)' :
                            \E m \in CommentsOf(r, p) : comments'[r][k] = comments[r][m]
  <1>1. ASSUME NEW p \in Proofs, \A w \in wire : Writing(w) => w.proof # p PROVE Still(p)
    <2>1. ASSUME NEW r \in Repos, NEW k \in CommentsOf(r, p)'
          PROVE  \E m \in CommentsOf(r, p) : comments'[r][k] = comments[r][m]
      <3>1. k \in DOMAIN comments'[r] /\ comments'[r][k].proof = p
        BY <2>1 DEF CommentsOf
      <3>2. PICK m \in DOMAIN comments[r] : comments'[r][k] = comments[r][m]
        BY <1>1, <3>1, WhereFrom
      <3> QED BY <3>1, <3>2 DEF CommentsOf
    <2> QED BY <2>1
  <1>2. overlapped \subseteq overlapped' /\ crowded \subseteq crowded'
    BY StepMoves, Arrival DEF Base, Next, Stays, Sends, Begins, vars, Handle, Refuse, Lose, AskAgain,
       SomeoneComments, SomeoneDeletes, SomeonePushes, Crash, history
  <1>3. ASSUME NEW p \in Proofs, NEW n, Still(p), Old(p, n) PROVE Old(p, n)'
    BY <1>3
  <1>4. ASSUME NEW h \in Handlers, Running(h, "publish", "search")', NEW p, p = job'[h].proof,
               NEW n, n = job'[h].version, p \notin overlapped'
        PROVE  Old(p, n)'
    <2>1. p \in Proofs \ overlapped /\ n \in Nat
      BY <1>2, <1>4 DEF Base, Typed, JobsTyped, Placed, Running, Jobs, NoJob
    <2>2. CASE job[h] = job'[h]
      <3>1. \A w \in wire : Writing(w) => w.proof # p
        BY <1>4, <2>1, <2>2, NobodyElse DEF Running
      <3>2. Old(p, n)
        BY <1>4, <2>1, <2>2 DEF Newer, Running
      <3> QED BY <1>1, <1>3, <2>1, <3>1, <3>2
    <2>3. CASE job[h] # job'[h]
      <3>1. n = newest[p] /\ UNCHANGED comments
        BY <1>4, <2>1, <2>3, SearchBegins
      <3>2. Old(p, n)
        BY <2>1, <3>1 DEF Base, Typed, CommentsTyped, CommentsOf
      <3> QED BY <3>1, <3>2 DEF CommentsOf
    <2> QED BY <2>2, <2>3
  <1>5. ASSUME NEW v \in wire', v.kind \in {"comment", "patch"}, v.proof \notin overlapped'
        PROVE  Covered(v)'
    <2>1. v.proof \in Proofs \ overlapped /\ v.target \in Repos
      BY <1>2, <1>5 DEF Base, Typed, WireTyped, Packed, Writes
    <2>2. CASE v \in wire
      <3>1. \A w \in wire : Writing(w) => w.proof # v.proof
        <4>1. ASSUME NEW w \in wire, Writing(w), w.proof = v.proof PROVE FALSE
          BY <1>5, <2>1, <2>2, <4>1, NobodyElse DEF Writing, Handle
        <4> QED BY <4>1
      <3>2. Still(v.proof) /\ Covered(v)
        BY <1>1, <1>5, <2>1, <2>2, <3>1 DEF Newer
      <3>3. Old(v.proof, v.version)'
        BY <2>1, <3>2
      <3>4. CommentsOf(v.target, v.proof) = {} => CommentsOf(v.target, v.proof)' = {}
        BY <2>1, <3>2
      <3> QED BY <1>2, <3>2, <3>3, <3>4
    <2>3. ASSUME NEW h \in Handlers, NEW j, Sends(h, j, v) PROVE Covered(v)'
      <3>1. /\ Running(h, "publish", "search") /\ v.version = job[h].version
            /\ v.proof = job[h].proof /\ UNCHANGED comments
            /\ v.kind = "comment" => v.target \in crowded' \/ CommentsOf(v.target, v.proof) = {}
        BY <1>5, <2>3 DEF Sends, Onward, github
      <3>2. Old(v.proof, v.version)
        BY <2>1, <3>1 DEF Newer
      <3> QED BY <3>1, <3>2 DEF CommentsOf
    <2> QED BY <2>2, <2>3, WhereSent
  <1>6. ASSUME NEW h \in Handlers, Running(h, "publish", "search")', job'[h].proof \notin overlapped',
               NEW r \in Repos, NEW i \in DOMAIN comments'[r],
               comments'[r][i].proof = job'[h].proof
        PROVE  comments'[r][i].version <= job'[h].version
    <2>1. PICK p, n : p = job'[h].proof /\ n = job'[h].version
      OBVIOUS
    <2>2. Old(p, n)'
      BY <1>4, <1>6, <2>1
    <2> QED BY <1>6, <2>1, <2>2 DEF CommentsOf
  <1>7. \A w \in wire' : w.kind \in {"comment", "patch"} /\ w.proof \notin overlapped' => Covered(w)'
    BY <1>5
  <1> QED BY <1>6, <1>7 DEF Newer, Running, CommentsOf

\* One comment of each proof: a new one is made where there is none.
LEMMA NextSingle ==
    ASSUME Base, Base', [Next]_vars, Identified, Aimed, Alone, Newer, Single
    PROVE  Single'
  <1>1. overlapped \subseteq overlapped' /\ crowded \subseteq crowded'
    BY StepMoves, Arrival DEF Base, Next, Stays, Sends, Begins, vars, Handle, Refuse, Lose, AskAgain,
       SomeoneComments, SomeoneDeletes, SomeonePushes, Crash, history
  <1> SUFFICES ASSUME NEW r \in Repos \ crowded, NEW p \in Proofs \ overlapped,
                      NEW k \in CommentsOf(r, p)', NEW l \in CommentsOf(r, p)', k # l
               PROVE  FALSE
    BY <1>1 DEF Single
  <1>2. /\ k \in DOMAIN comments'[r] /\ comments'[r][k].proof = p
        /\ l \in DOMAIN comments'[r] /\ comments'[r][l].proof = p
    BY DEF CommentsOf
  <1>3. \A m, n \in DOMAIN comments[r] : comments[r][m].proof = p /\ comments[r][n].proof = p => m = n
    BY DEF Single, CommentsOf
  <1>4. CASE comments'[r] = comments[r]
    BY <1>2, <1>3, <1>4
  <1>5. ASSUME Remark(r) PROVE FALSE
    <2>1. Comment(None, 0, 0).proof # p
      BY NoneIsNothing DEF Comment
    <2>2. \A i \in DOMAIN comments'[r] : comments'[r][i].proof = p =>
            i \in DOMAIN comments[r] /\ comments[r][i].proof = p
      BY <1>5, <2>1, LengthOf DEF Remark
    <2> QED BY <1>2, <1>3, <2>2
  <1>6. ASSUME NEW i \in DOMAIN comments[r], Without(comments[r], comments'[r], i) PROVE FALSE
    BY <1>2, <1>3, <1>6, LengthOf, LeftBehind
  <1>7. ASSUME NEW w \in wire, Writing(w), w.target = r PROVE FALSE
    <2>1. CASE w.kind = "comment" /\ Added(w)
      <3>1. Comment(w.proof, w.version, w.n).proof = w.proof
        BY DEF Comment
      <3>2. w.proof = p => CommentsOf(r, p) = {}
        BY <1>7, <2>1 DEF Newer
      <3>3. \A i \in DOMAIN comments'[r] : comments'[r][i].proof = p =>
                \/ i \in DOMAIN comments[r] /\ comments[r][i].proof = p
                \/ i = Len(comments[r]) + 1 /\ w.proof = p
        BY <1>7, <2>1, <3>1, LengthOf DEF Added
      <3>4. w.proof = p => \A i \in DOMAIN comments[r] : comments[r][i].proof # p
        BY <3>2 DEF CommentsOf
      <3> QED BY <1>2, <1>3, <3>3, <3>4
    <2>2. CASE w.kind = "patch" /\ Replaced(w)
      <3>1. \A i \in DOMAIN comments[r] : comments'[r][i].proof = comments[r][i].proof
        BY <1>7, <2>2 DEF Replaced, Aimed, Comment
      <3>2. DOMAIN comments'[r] = DOMAIN comments[r]
        BY <1>7, <2>2 DEF Replaced
      <3> QED BY <1>2, <1>3, <3>1, <3>2
    <2> QED BY <1>7, <2>1, <2>2 DEF Writing
  <1> QED BY <1>4, <1>5, <1>6, <1>7, CommentChanges DEF Elsewhere, Writing

\* At first there are no comments and no publications.
LEMMA InitUpserted == Init => Upserted
  <1> SUFFICES ASSUME Init PROVE Upserted
    OBVIOUS
  <1>1. \A r \in Repos : comments[r] = <<>> /\ DOMAIN comments[r] = {}
    BY DEF Init
  <1>2. \A h \in Handlers : job[h].proof \notin Proofs /\ job[h].pc = "idle"
    BY JobsAreNumbered, NoneIsNothing DEF Init
  <1>3. wire = {}
    BY DEF Init
  <1> QED BY <1>1, <1>2, <1>3
          DEF Upserted, Identified, Aimed, Alone, Newer, Single, CommentsOf, Running

\* The inductive invariant of publication holds in every reachable state.
THEOREM PublicationInvariant == Spec => [](Base /\ Upserted)
  <1>1. Base /\ Base' /\ [Next]_vars /\ Upserted => Upserted'
    BY NextIdentified, NextAimed, NextAlone, NextNewer, NextSingle DEF Upserted
  <1> QED BY <1>1, BaseHolds, InitUpserted, PTL DEF Spec

\* However publications are repeated, given up, refused or lost, a pull request has
\* one comment per proof, unless two publications of it overlapped or its comments
\* did not fit the page that is searched; for any number of handlers and any page
\* size (publishReviewPacketComment).
THEOREM PublicationIsUpsert == Spec => []OneCommentPerProof
  <1>1. Upserted => OneCommentPerProof
    <2> SUFFICES ASSUME Upserted, NEW r \in Repos \ crowded, NEW p \in Proofs \ overlapped
                 PROVE  Cardinality(CommentsOf(r, p)) <= 1
      BY DEF OneCommentPerProof
    <2>1. \A i, k \in CommentsOf(r, p) : i = k
      BY DEF Upserted, Single
    <2>2. CASE CommentsOf(r, p) = {}
      BY <2>2, FS_EmptySet
    <2>3. CASE CommentsOf(r, p) # {}
      <3>1. PICK i : CommentsOf(r, p) = {i}
        BY <2>1, <2>3
      <3> QED BY <3>1, FS_Singleton
    <2> QED BY <2>2, <2>3
  <1> QED BY <1>1, PublicationInvariant, PTL

\* A comment that a step leaves with its id keeps its proof, and its packet is not
\* replaced by an older one.
LEMMA StepAdvances ==
    ASSUME Base, Base', Upserted, [Next]_vars, NEW r \in Repos,
           NEW c \in ToSet(comments[r]), NEW d \in ToSet(comments'[r]),
           c.id = d.id, c.proof \notin overlapped
    PROVE  d.proof = c.proof /\ d.version >= c.version
  <1>1. PICK i \in DOMAIN comments[r] : c = comments[r][i]
    BY DEF ToSet
  <1>2. PICK k \in DOMAIN comments'[r] : d = comments'[r][k]
    BY DEF ToSet
  <1>3. c \in Comments /\ d \in Comments
    BY <1>1, <1>2 DEF Base, Typed, CommentsTyped
  <1>4. CASE c.id = 0
    <2>1. c = Comment(None, 0, 0) /\ d = Comment(None, 0, 0)
      BY <1>1, <1>2, <1>4, NextIdentified DEF Upserted, Identified
    <2> QED BY <2>1 DEF Comment
  <1>5. CASE c.id # 0
    <2>1. d.proof \in Proofs
      BY <1>2, <1>5, NextIdentified DEF Upserted, Identified
    <2>2. CASE \E m \in DOMAIN comments[r] : d = comments[r][m]
      <3>1. c = d
        BY <1>1, <1>5, <2>2 DEF Upserted, Identified
      <3> QED BY <1>3, <3>1 DEF Comments
    <2>3. ASSUME NEW w \in wire, Writing(w), w.target = r, d.proof = w.proof, d.version = w.version,
                 w.kind = "comment", d.id = w.n
          PROVE  FALSE
      BY <1>1, <1>5, <2>3, HandledOnce DEF Upserted, Identified
    <2>4. ASSUME NEW w \in wire, Writing(w), w.target = r, d.proof = w.proof, d.version = w.version,
                 w.kind = "patch", d.id = w.id
          PROVE  d.proof = c.proof /\ d.version >= c.version
      <3>1. c.proof = w.proof
        BY <1>1, <2>4 DEF Upserted, Aimed
      <3>2. c.version <= w.version
        BY <1>1, <2>4, <3>1 DEF Upserted, Newer, CommentsOf
      <3> QED BY <1>3, <2>4, <3>1, <3>2 DEF Comments
    <2> QED BY <1>2, <2>1, <2>2, <2>3, <2>4, WhereFrom DEF Upserted
  <1> QED BY <1>4, <1>5

\* Nobody else's comment is ever overwritten, and no published packet by an older
\* one, unless publications of the proof overlapped (publishReviewPacketComment).
THEOREM PacketsNeverGoBack == Spec => PacketsAdvance
  <1>1. Base /\ Base' /\ Upserted /\ [Next]_vars =>
            [\A r \in Repos : \A c \in ToSet(comments[r]) : \A d \in ToSet(comments'[r]) :
                c.id = d.id /\ c.proof \notin overlapped =>
                    d.proof = c.proof /\ d.version >= c.version]_vars
    BY StepAdvances
  <1> QED BY <1>1, PublicationInvariant, PTL DEF Spec, PacketsAdvance
==============================================================================
