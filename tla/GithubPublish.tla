----------------------------- MODULE GithubPublish ----------------------------
(***************************************************************************)
(* GithubService: the repository binding, publication of review packets as *)
(* pull request comments, workflow dispatches and the files of a pull      *)
(* request, against GitHub.                                                *)
(*                                                                         *)
(* Every call to GitHub or to the gh command line is awaited. A read is    *)
(* answered in one step. A write travels: it is on the wire until GitHub   *)
(* handles it, also when the handler that sent it has given up, and its    *)
(* answer may be lost. One pull request of each repository is looked at,   *)
(* and the files of a pull request are counted, not named.                 *)
(***************************************************************************)
EXTENDS Naturals, FiniteSets, Sequences, SequencesExt, TLC

CONSTANTS
    Handlers, Repos, Proofs, None,
    WithPacket,         \* the proofs that hold a decision packet
    Asked,              \* the requests clients make
    Product,            \* resolveProductRepoIdentity: the product's repository
    Configured,         \* GITHUB_REPO_OWNER and GITHUB_REPO_NAME are set
    EnvToken,           \* GITHUB_TOKEN is set
    FirstRepos,         \* the repositories GitHub has at first
    FirstFiles,         \* the changed files of each pull request at first
    PageSize,           \* comments a search asks for: 100
    PageCap,            \* items GitHub gives at most, whatever is asked: 100
    MaxRequests, MaxFaults, MaxOthers, MaxVersions  \* bounds

Kinds == {"publish", "select", "create", "dispatch", "files", "binding", "login"}
Requests == [op : Kinds, repo : Repos \cup {None}, proof : Proofs \cup {None},
             token : Proofs \cup {None}, limit : Nat]

ASSUME GithubAssumption ==
    /\ None \notin Handlers \cup Repos \cup Proofs
    /\ WithPacket \subseteq Proofs /\ Product \in Repos
    /\ Asked \subseteq Requests /\ FirstRepos \subseteq Repos
    /\ \A r \in Asked : /\ r.op = "publish" => r.proof # None
                        /\ r.op \in {"select", "create"} => r.repo # None
    /\ {Configured, EnvToken} \subseteq BOOLEAN /\ IsFiniteSet(Handlers)
    /\ {FirstFiles, PageSize, PageCap, MaxRequests, MaxFaults, MaxOthers,
        MaxVersions} \subseteq Nat /\ MaxVersions > 0

VARIABLES
    \* the workspace
    selectedRepo,       \* the selected-repo file, None when there is none to read
    loggedIn,           \* gh has a token
    newest,             \* [Proofs -> Nat]: the newest stored version, 0 for none
    job,
    \* GitHub
    repos,              \* its repositories
    comments,           \* [Repos -> Seq]: the pull request's comments, oldest first
    files,              \* [Repos -> Nat]: the pull request's changed files
    dispatched,         \* [Repos -> Nat]: workflow runs started
    wire,               \* the writes on their way
    \* bounds and history
    requests, faults, others,
    sent, accepted,     \* [Repos -> Nat]: dispatches sent, dispatches acknowledged
    overlapped,         \* proofs two publications of which overlapped
    crowded,            \* repositories searched with comments beyond the page
    answers             \* what binding and file requests were told

workspace == <<selectedRepo, loggedIn, newest>>
github    == <<repos, comments, files, dispatched>>
history   == <<sent, accepted, overlapped, crowded, answers>>
bounds    == <<requests, faults, others>>
vars      == <<workspace, job, github, wire, bounds, history>>

NoJob == [op |-> "none", pc |-> "idle", n |-> 0, proof |-> None]
Running(h, op, pc) == job[h].op = op /\ job[h].pc = pc

Awaited == {"login", "auth", "viewer", "search", "repo", "remote", "pages", "write"}
Comment(proof, version, id) == [proof |-> proof, version |-> version, id |-> id]

TypeOK ==
    /\ selectedRepo \in Repos \cup {None} /\ loggedIn \in BOOLEAN
    /\ newest \in [Proofs -> 0..MaxVersions]
    /\ repos \subseteq Repos /\ files \in [Repos -> FirstFiles..FirstFiles + MaxOthers]
    /\ \A r \in Repos : \A i \in DOMAIN comments[r] :
        comments[r][i].proof \in Proofs => comments[r][i].version \in 1..newest[comments[r][i].proof]
    /\ \A h \in Handlers :
        /\ job[h].op \in Kinds \cup {"none"} /\ job[h].n \in 0..requests
        /\ job[h].pc \in Awaited \cup {"idle", "replied"}
        /\ job[h].pc \in {"search", "write"} => job[h].target \in Repos
    /\ \A w \in wire : w.n \in 1..requests /\ w.target \in Repos
    /\ overlapped \subseteq Proofs /\ crowded \subseteq Repos

Init ==
    /\ selectedRepo \in FirstRepos \cup {None} /\ loggedIn = FALSE
    /\ newest \in [Proofs -> 0..1]
    /\ job = [h \in Handlers |-> NoJob]
    /\ repos = FirstRepos
    /\ comments = [r \in Repos |-> <<>>] /\ files = [r \in Repos |-> FirstFiles]
    /\ dispatched = [r \in Repos |-> 0] /\ wire = {}
    /\ requests = 0 /\ faults = 0 /\ others = 0
    /\ sent = [r \in Repos |-> 0] /\ accepted = [r \in Repos |-> 0]
    /\ overlapped = {} /\ crowded = {} /\ answers = {}

------------------------------------------------------------------------------
(* The workspace.                                                          *)

\* The configured repository is the product's.
DefaultRepo == IF Configured THEN Product ELSE None

resolveTargetRepo(explicit) ==
    CASE explicit # None -> explicit
      [] explicit = None /\ selectedRepo # None -> selectedRepo
      [] OTHER -> DefaultRepo

\* A request arrives. A binding request reads the selection at once.
Request(h) ==
    /\ job[h] = NoJob /\ requests < MaxRequests
    /\ requests' = requests + 1
    /\ \E r \in Asked :
        LET pc == CASE r.op = "binding" -> "remote"
                    [] r.op = "login" /\ ~EnvToken -> "login"
                    [] OTHER -> "auth"
            rivals == {job[g].proof : g \in Handlers \ {h}} \cup {w.proof : w \in wire}
        IN  /\ job' = [job EXCEPT ![h] = [op |-> r.op, pc |-> pc, n |-> requests + 1,
                          proof |-> r.proof, token |-> r.token, repo |-> r.repo,
                          limit |-> r.limit, target |-> None, version |-> 0,
                          seen |-> selectedRepo, total |-> None, got |-> None,
                          moved |-> FALSE, ok |-> FALSE]]
            /\ overlapped' = overlapped \cup (rivals \cap {r.proof} \cap Proofs)
    /\ UNCHANGED <<workspace, github, wire, faults, others, sent, accepted, crowded, answers>>

Stop(h) == job' = [job EXCEPT ![h] = NoJob]

\* gh auth login returns: the operator authorised it.
LoggedIn(h) ==
    /\ Running(h, "login", "login")
    /\ loggedIn' = TRUE
    /\ job' = [job EXCEPT ![h].pc = "auth"]
    /\ UNCHANGED <<selectedRepo, newest, github, wire, bounds, history>>

\* Mutated: a write whose answer is lost is sent again.
CallFails_Resends(h) ==
    /\ job[h].pc \in {"write", "replied"} /\ faults < MaxFaults
    /\ faults' = faults + 1
    /\ job' = [job EXCEPT ![h].pc = "write"]
    /\ wire' = wire \cup {[n |-> job[h].n, kind |-> job[h].op, target |-> job[h].target,
                           proof |-> job[h].proof, version |-> job[h].version, id |-> 0]}
    /\ UNCHANGED <<workspace, github, requests, others, history>>

\* An awaited call fails, or its answer is lost: an error to the client.
CallFails(h) ==
    /\ job[h].pc \in Awaited \cup {"replied"} /\ faults < MaxFaults
    /\ faults' = faults + 1
    /\ Stop(h)
    /\ UNCHANGED <<workspace, github, wire, requests, others, history>>

\* resolveGithubAuth finds no token.
NoAuth(h) ==
    /\ job[h].pc = "auth" /\ ~EnvToken /\ ~loggedIn
    /\ Stop(h)
    /\ UNCHANGED <<workspace, github, wire, bounds, history>>

resolveGithubAuth(h) == job[h].pc = "auth" /\ (EnvToken \/ loggedIn)

\* Those that ask for the viewer first.
AskViewer(h) ==
    /\ resolveGithubAuth(h) /\ job[h].op \in {"create", "files", "login"}
    /\ job' = [job EXCEPT ![h].pc = "viewer"]
    /\ UNCHANGED <<workspace, github, wire, bounds, history>>

\* A login ends with the status of the session.
Viewed(h) ==
    /\ Running(h, "login", "viewer")
    /\ Stop(h)
    /\ UNCHANGED <<workspace, github, wire, bounds, history>>

\* Sends a write and waits for its answer.
Send(h, j, kind, id) ==
    /\ wire' = wire \cup {[n |-> j.n, kind |-> kind, target |-> j.target,
                           proof |-> j.proof, version |-> j.version, id |-> id]}
    /\ job' = [job EXCEPT ![h] = [j EXCEPT !.pc = "write"]]

------------------------------------------------------------------------------
(* The repository binding.                                                 *)

AskRepo(h) ==
    /\ resolveGithubAuth(h) /\ job[h].op = "select"
    /\ job' = [job EXCEPT ![h].pc = "repo"]
    /\ UNCHANGED <<workspace, github, wire, bounds, history>>

\* GitHub knows the repository, and it is selected; or it does not.
RepoAnswered(h) ==
    /\ Running(h, "select", "repo")
    /\ selectedRepo' = IF job[h].repo \in repos THEN job[h].repo ELSE selectedRepo
    /\ Stop(h)
    /\ UNCHANGED <<loggedIn, newest, github, wire, bounds, history>>

SendCreate(h) ==
    /\ Running(h, "create", "viewer")
    /\ Send(h, [job[h] EXCEPT !.target = job[h].repo], "create", 0)
    /\ UNCHANGED <<workspace, github, bounds, history>>

persistSelectedRepo(h) == IF job[h].ok THEN job[h].repo ELSE selectedRepo

Created(h) ==
    /\ Running(h, "create", "replied")
    /\ selectedRepo' = persistSelectedRepo(h)
    /\ Stop(h)
    /\ UNCHANGED <<loggedIn, newest, github, wire, bounds, history>>

\* Mutated: the answer names the selection read after the await.
bindingAnswer_Fresh(h, product) ==
    [op |-> "binding", ready |-> job[h].seen # None /\ product # None /\ job[h].seen # product,
     repo |-> selectedRepo]

bindingAnswer(h, product) ==
    [op |-> "binding", ready |-> job[h].seen # None /\ product # None /\ job[h].seen # product,
     repo |-> job[h].seen]

\* git remote get-url, unless the product is configured; it may find none.
RemoteAnswered(h) ==
    /\ Running(h, "binding", "remote")
    /\ \E product \in (IF Configured THEN {Product} ELSE {Product, None}) :
        answers' = answers \cup {bindingAnswer(h, product)}
    /\ Stop(h)
    /\ UNCHANGED <<workspace, github, wire, bounds, sent, accepted, overlapped, crowded>>

------------------------------------------------------------------------------
(* Publication of a review packet.                                         *)

publishable(h, target) ==
    LET j == job[h]
    IN  /\ target # None /\ newest[j.proof] > 0
        /\ j.token \in {None, j.proof} /\ j.proof \in WithPacket

\* The target and the proof are read when the token is there.
AskComments(h) ==
    /\ resolveGithubAuth(h) /\ job[h].op = "publish"
    /\ LET target == resolveTargetRepo(job[h].repo)
           version == newest[job[h].proof]
       IN  job' = [job EXCEPT ![h] =
                IF publishable(h, target)
                THEN [@ EXCEPT !.pc = "search", !.target = target, !.version = version]
                ELSE NoJob]
    /\ UNCHANGED <<workspace, github, wire, bounds, history>>

\* The positions of the first page of comments.
Page(r) == 1..(IF Len(comments[r]) < PageSize THEN Len(comments[r]) ELSE PageSize)

\* Mutated: the search wants the packet it is about to write.
findExistingComment_SamePacket(h) ==
    {i \in Page(job[h].target) :
        LET c == comments[job[h].target][i]
        IN  c.proof = job[h].proof /\ c.version = job[h].version}

\* Mutated: the first comment will do.
findExistingComment_First(h) == Page(job[h].target)

\* The comments on that page that bear the proof's marker.
findExistingComment(h) ==
    {i \in Page(job[h].target) : comments[job[h].target][i].proof = job[h].proof}

\* The comments are there: the first that bears the marker is patched.
CommentsAnswered(h) ==
    /\ Running(h, "publish", "search")
    /\ job[h].target \in repos
    /\ LET existing == findExistingComment(h)
           first == comments[job[h].target][Min(existing)]
       IN  IF existing # {} THEN Send(h, job[h], "patch", first.id)
                            ELSE Send(h, job[h], "comment", 0)
    /\ crowded' = crowded \cup
            {r \in {job[h].target} : Len(comments[r]) > PageSize}
    /\ UNCHANGED <<workspace, github, bounds, sent, accepted, overlapped, answers>>

\* No such repository.
TargetMissing(h) ==
    /\ job[h].pc = "search" /\ job[h].target \notin repos
    /\ Stop(h)
    /\ UNCHANGED <<workspace, github, wire, bounds, history>>

Published(h) ==
    /\ Running(h, "publish", "replied")
    /\ Stop(h)
    /\ UNCHANGED <<workspace, github, wire, bounds, history>>

------------------------------------------------------------------------------
(* Workflow dispatches.                                                    *)

\* Mutated: the target is not looked at.
SendDispatch_Unbound(h) ==
    /\ resolveGithubAuth(h) /\ job[h].op = "dispatch"
    /\ Send(h, [job[h] EXCEPT !.target = resolveTargetRepo(job[h].repo)], "dispatch", 0)
    /\ UNCHANGED <<workspace, github, bounds, history>>

SendDispatch(h) ==
    /\ resolveGithubAuth(h) /\ job[h].op = "dispatch"
    /\ LET target == resolveTargetRepo(job[h].repo)
       IN  IF target = None THEN Stop(h) /\ UNCHANGED <<wire, sent>>
           ELSE /\ Send(h, [job[h] EXCEPT !.target = target], "dispatch", 0)
                /\ sent' = [sent EXCEPT ![target] = @ + 1]
    /\ UNCHANGED <<workspace, github, bounds, accepted, overlapped, crowded, answers>>

Dispatched(h) ==
    /\ Running(h, "dispatch", "replied")
    /\ accepted' = IF job[h].ok THEN [accepted EXCEPT ![job[h].target] = @ + 1] ELSE accepted
    /\ Stop(h)
    /\ UNCHANGED <<workspace, github, wire, bounds, sent, overlapped, crowded, answers>>

------------------------------------------------------------------------------
(* The files of a pull request: two reads in parallel.                     *)

AskPages(h) ==
    /\ Running(h, "files", "viewer")
    /\ LET target == resolveTargetRepo(job[h].repo)
       IN  job' = [job EXCEPT ![h] = IF target \notin repos THEN NoJob
                                     ELSE [@ EXCEPT !.pc = "pages", !.target = target]]
    /\ UNCHANGED <<workspace, github, wire, bounds, history>>

\* changed_files of the pull request.
PullAnswered(h) ==
    /\ Running(h, "files", "pages") /\ job[h].total = None
    /\ job' = [job EXCEPT ![h].total = files[job[h].target]]
    /\ UNCHANGED <<workspace, github, wire, bounds, history>>

\* The first page of its files, which GitHub caps.
FilesAnswered(h) ==
    /\ Running(h, "files", "pages") /\ job[h].got = None
    /\ LET Least(a, b) == IF a < b THEN a ELSE b
       IN  job' = [job EXCEPT ![h].got =
                        Least(files[job[h].target], Least(job[h].limit, PageCap))]
    /\ UNCHANGED <<workspace, github, wire, bounds, history>>

\* Mutated: the total is compared with the limit that was asked for.
truncated_ByLimit(h) == job[h].total > job[h].limit

truncated(h) == job[h].total > job[h].got

PagesAnswered(h) ==
    /\ Running(h, "files", "pages") /\ job[h].total # None /\ job[h].got # None
    /\ answers' = answers \cup
        {[op |-> "files", truncated |-> truncated(h), moved |-> job[h].moved,
          complete |-> job[h].got = files[job[h].target]]}
    /\ Stop(h)
    /\ UNCHANGED <<workspace, github, wire, bounds, sent, accepted, overlapped, crowded>>

------------------------------------------------------------------------------
(* GitHub, and everyone else.                                              *)

\* The comment's id is the number of the request that made it.
Patched(w) == {i \in DOMAIN comments[w.target] : comments[w.target][i].id = w.id}

Succeeds(w) ==
    CASE w.kind = "create" -> w.target \notin repos
      [] w.kind = "patch" -> Patched(w) # {}
      [] OTHER -> w.target \in repos

Effect(w) ==
    /\ repos' = IF w.kind = "create" THEN repos \cup {w.target} ELSE repos
    /\ comments' =
        CASE w.kind = "comment" ->
                [comments EXCEPT ![w.target] = Append(@, Comment(w.proof, w.version, w.n))]
          [] w.kind = "patch" ->
                [comments EXCEPT ![w.target] = [i \in DOMAIN @ |->
                    IF i \in Patched(w) THEN Comment(w.proof, w.version, w.id) ELSE @[i]]]
          [] OTHER -> comments
    /\ dispatched' = IF w.kind = "dispatch" THEN [dispatched EXCEPT ![w.target] = @ + 1]
                                            ELSE dispatched

\* GitHub handles a write and answers the handler that still waits for it.
Handle(w) ==
    /\ w \in wire
    /\ wire' = wire \ {w}
    /\ IF Succeeds(w) THEN Effect(w) ELSE UNCHANGED <<repos, comments, dispatched>>
    /\ job' = [h \in Handlers |->
                IF job[h].n = w.n /\ job[h].pc = "write"
                THEN [job[h] EXCEPT !.pc = "replied", !.ok = Succeeds(w)] ELSE job[h]]
    /\ UNCHANGED <<workspace, files, bounds, history>>

\* GitHub refuses a write: no permission, or too many requests.
Refuse(w) ==
    /\ w \in wire /\ faults < MaxFaults
    /\ faults' = faults + 1 /\ wire' = wire \ {w}
    /\ job' = [h \in Handlers |->
                IF job[h].n = w.n /\ job[h].pc = "write"
                THEN [job[h] EXCEPT !.pc = "replied", !.ok = FALSE] ELSE job[h]]
    /\ UNCHANGED <<workspace, github, requests, others, history>>

\* A write is lost before GitHub saw it.
Lose(w) ==
    /\ w \in wire /\ faults < MaxFaults
    /\ faults' = faults + 1 /\ wire' = wire \ {w}
    /\ UNCHANGED <<workspace, job, github, requests, others, history>>

\* Another ask stores a proof with the same id and another packet.
AskAgain(p) ==
    /\ newest[p] < MaxVersions
    /\ newest' = [newest EXCEPT ![p] = @ + 1]
    /\ UNCHANGED <<selectedRepo, loggedIn, job, github, wire, bounds, history>>

SomeoneComments(r) ==
    /\ r \in repos /\ others < MaxOthers /\ others' = others + 1
    /\ comments' = [comments EXCEPT ![r] = Append(@, Comment(None, 0, 0))]
    /\ UNCHANGED <<workspace, job, repos, files, dispatched, wire, requests, faults, history>>

SomeoneDeletes(r) ==
    /\ comments[r] # <<>> /\ others < MaxOthers /\ others' = others + 1
    /\ \E i \in DOMAIN comments[r] : comments' = [comments EXCEPT ![r] = RemoveAt(@, i)]
    /\ UNCHANGED <<workspace, job, repos, files, dispatched, wire, requests, faults, history>>

\* A push changes another file.
SomeonePushes(r) ==
    /\ r \in repos /\ others < MaxOthers /\ others' = others + 1
    /\ files' = [files EXCEPT ![r] = @ + 1]
    /\ job' = [h \in Handlers |-> IF Running(h, "files", "pages") /\ job[h].target = r
                                  THEN [job[h] EXCEPT !.moved = TRUE] ELSE job[h]]
    /\ UNCHANGED <<workspace, repos, comments, dispatched, wire, requests, faults, history>>

\* The process dies. A selection half written is none.
Crash ==
    /\ faults < MaxFaults /\ \E h \in Handlers : job[h] # NoJob
    /\ faults' = faults + 1
    /\ \/ UNCHANGED selectedRepo
       \/ /\ \E h \in Handlers : Running(h, "create", "replied") \/ Running(h, "select", "repo")
          /\ selectedRepo' = None
    /\ job' = [h \in Handlers |-> NoJob]
    /\ UNCHANGED <<loggedIn, newest, github, wire, requests, others, history>>

------------------------------------------------------------------------------
\* What follows when an awaited call returns.
Step(h) ==
    \/ LoggedIn(h) \/ NoAuth(h) \/ AskViewer(h) \/ Viewed(h)
    \/ AskRepo(h) \/ RepoAnswered(h) \/ SendCreate(h) \/ Created(h) \/ RemoteAnswered(h)
    \/ AskComments(h) \/ CommentsAnswered(h) \/ TargetMissing(h) \/ Published(h)
    \/ SendDispatch(h) \/ Dispatched(h)
    \/ AskPages(h) \/ PullAnswered(h) \/ FilesAnswered(h) \/ PagesAnswered(h)

Next ==
    \/ \E h \in Handlers : Request(h) \/ Step(h) \/ CallFails(h)
    \/ \E w \in wire : Handle(w) \/ Refuse(w) \/ Lose(w)
    \/ \E p \in Proofs : AskAgain(p)
    \/ \E r \in Repos : SomeoneComments(r) \/ SomeoneDeletes(r) \/ SomeonePushes(r)
    \/ Crash

Spec == Init /\ [][Next]_vars

------------------------------------------------------------------------------
(* Properties.                                                             *)

\* The comments of one proof.
CommentsOf(r, p) == {i \in DOMAIN comments[r] : comments[r][i].proof = p}

\* Publication is an upsert: however often a publication is retried, after a
\* crash or a lost answer or with a newer packet, a pull request has one comment
\* per proof, unless two publications of it overlapped (one may have been given
\* up) or the comment was beyond the page that is searched.
OneCommentPerProof ==
    \A r \in Repos \ crowded : \A p \in Proofs \ overlapped : Cardinality(CommentsOf(r, p)) <= 1

\* Nobody else's comment is ever overwritten, and a published packet never by an
\* older one, unless publications of the proof overlapped:
\* publishReviewPacketComment reads the proof before it awaits the search and
\* the write.
PacketsAdvance ==
    [][\A r \in Repos : \A c \in ToSet(comments[r]) : \A d \in ToSet(comments'[r]) :
        c.id = d.id /\ c.proof \notin overlapped => d.proof = c.proof /\ d.version >= c.version]_vars

\* The binding is never reported ready for the product's own repository, however
\* the selection changes while the product is looked up (repoBindingStatus).
ReadyNeverProduct ==
    \A a \in answers : a.op = "binding" /\ a.ready => a.repo \in repos \ {Product}

\* A dispatch is sent once: no failure makes the service send it again, and each
\* acknowledged one has started a run (dispatchWorkflow).
DispatchedOnce == \A r \in Repos : accepted[r] <= dispatched[r] /\ dispatched[r] <= sent[r]

\* An answer with a pull request's files is complete or says it is truncated,
\* unless the pull request changed while its two parts were read.
FilesTold ==
    \A a \in answers : a.op = "files" /\ ~a.moved => a.complete \/ a.truncated
==============================================================================
