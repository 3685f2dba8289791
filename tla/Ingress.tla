------------------------------- MODULE Ingress -------------------------------
(***************************************************************************)
(* From an event at a forge to a run: ParseWebhook recognises the sender   *)
(* by its signature and normalises the payload, process resolves the       *)
(* policy of the repository, passes the event through its gates and stores *)
(* a run under an idempotency key, and the job carries what the publisher  *)
(* may do.  MomosService takes keys, pull requests and gates as given and  *)
(* interleaves the statements; here they are what the code computes, and   *)
(* one delivery is handled at a time.                                      *)
(*                                                                         *)
(* Forges deliver late, out of order, twice or never.                      *)
(*                                                                         *)
(* A definition X_How is no part of the specification: it is X with a      *)
(* plausible bug, and some property of this module catches it.             *)
(***************************************************************************)
EXTENDS Integers, Sequences, FiniteSets, Policy

CONSTANTS
    Refs,           \* the pull requests and branches that have events
    Commits,
    ForgeList,      \* cfg.Forges, in its order
    NoSecret,       \* the webhook secret of a forge that has none
    NoCommit,       \* the head of a ref that does not exist yet
    Gone,           \* in the place of a head repository that was deleted
    Defaults,       \* the default policies an operator may write
    RuleLists,      \* the lists of repository rules
    Prompts,        \* the prompts that can be read and rendered
    MaxEvents,      \* bound: events
    MaxRows         \* bound: runs in the store

ForgeIds == {ForgeList[i].id : i \in DOMAIN ForgeList}
Clients  == {ForgeList[i].id : i \in {j \in DOMAIN ForgeList : ForgeList[j].type = "github"}}

Repos         == {ref.repo : ref \in Refs}
PublishBlocks == [inline : BOOLEAN, approvals : BOOLEAN]

ASSUME IngressAssumption ==
    /\ ForgeList \in Seq([id : STRING, type : STRING, secret : STRING])
    /\ \A i, j \in DOMAIN ForgeList : ForgeList[i].id = ForgeList[j].id => i = j
    /\ \A ref \in Refs : ref.forge \in ForgeIds /\ ref.kind \in {"pull_request", "push"}
    /\ \A d \in Defaults, rs \in RuleLists, ref \in Refs :
          Resolve(d, rs, ref.repo).publish \in PublishBlocks
    /\ MaxEvents \in Nat /\ MaxRows \in Nat

VARIABLES
    defaults, rules,    \* the configuration file
    tip,        \* the head of every ref, and how many events it had
    gone,       \* the pull requests whose head repository was deleted
    sent,       \* the deliveries the forges have made
    seen,       \* Server.deliveries
    rows        \* the table of runs, in the order of its inserts

vars == <<defaults, rules, tip, gone, sent, seen, rows>>
-----------------------------------------------------------------------------
\* PolicyHash: of the policy, what it hashes.
PolicyHash(pol) == [prompt |-> pol.prompt, engine |-> pol.engine, limits |-> pol.limits]

Hashes  == {PolicyHash(Resolve(d, rs, repo)) : d \in Defaults, rs \in RuleLists, repo \in Repos}
Numbers == {0} \cup {ref.number : ref \in {r \in Refs : r.kind = "pull_request"}}

\* A delivery: the number of the event at its ref, the head then, and the
\* repository that the payload says the head is in.
Delivery ==
    {m \in [ref : Refs, no : Nat, commit : Commits, action : {"synchronize", "labeled"},
            from : {ref.home : ref \in Refs} \cup {Gone}] : m.from \in {m.ref.home, Gone}}

Statuses == {"submitted", "superseded", "succeeded", "review_failed"}

\* A row of the table with its job; event stands for the columns of the event.
RowType == [event : Delivery, forge : Clients, repo : Repos, number : Numbers, head : Commits,
            hash : Hashes, publish : [inline : BOOLEAN, approvals : BOOLEAN, isFork : BOOLEAN],
            status : Statuses]

TypeOK ==
    /\ defaults \in Defaults /\ rules \in RuleLists
    /\ tip \in [Refs -> [no : Nat, commit : Commits \cup {NoCommit}]]
    /\ gone \subseteq Refs
    /\ sent \subseteq Delivery
    /\ seen \subseteq sent
    /\ rows \in Seq(RowType)

Init ==
    /\ defaults \in Defaults /\ rules \in RuleLists
    /\ tip = [ref \in Refs |-> [no |-> 0, commit |-> NoCommit]] /\ gone = {}
    /\ sent = {} /\ seen = {} /\ rows = <<>>
-----------------------------------------------------------------------------
(* The forges. *)

Send(ref, commit, action, from) ==
    /\ Cardinality(sent) < MaxEvents
    /\ tip' = [tip EXCEPT ![ref] = [no |-> @.no + 1, commit |-> commit]]
    /\ sent' = sent \cup {[ref |-> ref, no |-> tip[ref].no + 1,
                           commit |-> commit, action |-> action, from |-> from]}
    /\ UNCHANGED <<defaults, rules, seen, rows>>

\* A push, to a branch or to the head of a pull request (the first one opens it).
Push(ref, commit) ==
    /\ ref \notin gone
    /\ Send(ref, commit, "synchronize", ref.home)
    /\ UNCHANGED gone

\* An event of a pull request that leaves its head; a fork may have been deleted before.
Label(ref, from) ==
    /\ ref.kind = "pull_request" /\ tip[ref].commit # NoCommit
    /\ gone' = IF from = Gone THEN gone \cup {ref} ELSE gone
    /\ ref \in gone' => from = Gone
    /\ Send(ref, tip[ref].commit, "labeled", from)
-----------------------------------------------------------------------------
(* ParseWebhook and the loop over the configured forges. *)

SecretOf(id) == ForgeList[CHOOSE i \in DOMAIN ForgeList : ForgeList[i].id = id].secret

\* With a bug: the signature is not compared.
Verifies_Unsigned(fc, m) == fc.type = "github"

\* The forge's webhook was given the secret of its entry; without a secret nothing is verified.
Verifies(fc, m) == fc.type = "github" /\ fc.secret \in {NoSecret, SecretOf(m.ref.forge)}

\* The first entry of type github whose secret fits: 0 when the webhook is rejected.
ParseAnyGitHub(m) == SelectInSeq(ForgeList, LAMBDA fc : Verifies(fc, m))

\* The payload of a deleted fork has no head repository.
IsFork(m) == m.ref.kind = "pull_request" /\ m.from # Gone /\ m.from # m.ref.repo

\* Push events have no pull request: number 0.
Number(m) == IF m.ref.kind = "push" THEN 0 ELSE m.ref.number

(* process: policy, gates, key and job. *)

Pol(m) == Resolve(defaults, rules, m.ref.repo)

\* The policy's forge, or the one that delivered.
ForgeOf(m) == IF Pol(m).forge = Inherit THEN ForgeList[ParseAnyGitHub(m)].id ELSE Pol(m).forge

\* The names that a push event may be listed under are those of its ref.
Triggered(m) ==
    IF m.ref.kind = "pull_request" THEN m.action \in Pol(m).pullRequest
    ELSE m.ref.name \in Pol(m).push

\* With a bug: only pull requests that are opened or pushed to are held back.
ForkGate_OnPush(m) == IsFork(m) /\ m.action = "synchronize" => Pol(m).forkPolicy # "none"

ForkGate(m) == IsFork(m) => Pol(m).forkPolicy # "none"

\* With a bug: an entry is taken for a client.
Supported_AnyType(id) == \E i \in DOMAIN ForgeList : ForgeList[i].id = id

\* Server.forge knows the entries of type github only.
Supported(id) == \E i \in DOMAIN ForgeList : ForgeList[i].id = id /\ ForgeList[i].type = "github"

Admitted(m) == Triggered(m) /\ ForkGate(m) /\ Supported(ForgeOf(m)) /\ Pol(m).prompt \in Prompts

\* What publisher.FromEnv reads from the environment that publishStep writes.
Publish(m) ==
    [inline    |-> Pol(m).publish.inline /\ ~(IsFork(m) /\ Pol(m).forkPolicy = "summary_only"),
     approvals |-> Pol(m).publish.approvals,
     isFork    |-> IsFork(m)]

Row(m) ==
    [event |-> m, forge |-> ForgeOf(m), repo |-> m.ref.repo, number |-> Number(m),
     head |-> m.commit, hash |-> PolicyHash(Pol(m)), publish |-> Publish(m), status |-> "submitted"]

(* Create. *)

SameKey(a, b) == a.repo = b.repo /\ a.head = b.head /\ a.hash = b.hash

SamePR(a, b) == a.repo = b.repo /\ a.number = b.number

\* With a bug: the head is not compared.
Duplicate_AnyHead(row) ==
    \E i \in DOMAIN rows :
        rows[i].status = "submitted" /\ rows[i].repo = row.repo /\ rows[i].hash = row.hash

Duplicate(row) == \E i \in DOMAIN rows : rows[i].status = "submitted" /\ SameKey(rows[i], row)

\* With a bug: the list of statuses has lost one.
Supersede_Failed(old, row) ==
    IF SamePR(old, row) /\ old.status = "review_failed"
    THEN [old EXCEPT !.status = "superseded"] ELSE old

Supersede(old, row) ==
    IF SamePR(old, row) /\ old.status \in {"submitted", "review_failed"}
    THEN [old EXCEPT !.status = "superseded"] ELSE old

Create(row) ==
    IF Duplicate(row) THEN UNCHANGED rows
    ELSE /\ Len(rows) < MaxRows
         /\ rows' = Append([i \in DOMAIN rows |-> Supersede(rows[i], row)], row)

\* A webhook arrives, for the first time or again, and is handled to its end.
Handle(m) ==
    /\ m \in sent \ seen
    /\ ParseAnyGitHub(m) # 0
    /\ seen' = seen \cup {m}
    /\ IF Admitted(m) THEN Create(Row(m)) ELSE UNCHANGED rows
    /\ UNCHANGED <<defaults, rules, tip, gone, sent>>

\* gcDeliveries after an hour, or a restart.
Forget(m) ==
    /\ m \in seen
    /\ seen' = seen \ {m}
    /\ UNCHANGED <<defaults, rules, tip, gone, sent, rows>>

\* The run ends, by its callback or the reconciler.
End(i, s) ==
    /\ rows[i].status \in {"submitted", "superseded"}
    /\ rows' = [rows EXCEPT ![i].status = s]
    /\ UNCHANGED <<defaults, rules, tip, gone, sent, seen>>

Next ==
    \/ \E ref \in Refs, commit \in Commits : Push(ref, commit)
    \/ \E ref \in Refs : \E from \in {ref.home, Gone} : Label(ref, from)
    \/ \E m \in sent : Handle(m) \/ Forget(m)
    \/ \E i \in DOMAIN rows, s \in {"succeeded", "review_failed"} : End(i, s)

Spec == Init /\ [][Next]_vars
-----------------------------------------------------------------------------
(* Properties. *)

Active(i) == rows[i].status = "submitted"

\* Create, while no two overlap: one key and one pull request have one active run, however
\* often and in whatever order deliveries come, and after their ids are forgotten too.
OneActiveRun ==
    \A i, j \in DOMAIN rows :
        i # j /\ Active(i) /\ Active(j) => ~SameKey(rows[i], rows[j]) /\ ~SamePR(rows[i], rows[j])

\* An event that was let through is never lost to a duplicate: its commit has a run under the
\* policy's hash, be it for another pull request of the repository or of its namesake.
CommitGetsRun ==
    \A m \in seen :
        Admitted(m) => \E i \in DOMAIN rows : /\ rows[i].repo = m.ref.repo
                                               /\ rows[i].head = m.commit
                                               /\ rows[i].hash = PolicyHash(Pol(m))

\* No two entries share a secret, and none is without.
SecretsTellApart ==
    /\ \A i \in DOMAIN ForgeList : ForgeList[i].secret # NoSecret
    /\ \A i, j \in DOMAIN ForgeList : ForgeList[i].secret = ForgeList[j].secret => i = j

\* The run of an event works with the credentials of the forge that sent it, unless the
\* policy names another: the signature decides, not the order of the entries.
StaysOnItsForge ==
    SecretsTellApart =>
        \A i \in DOMAIN rows :
            Pol(rows[i].event).forge = Inherit => rows[i].forge = rows[i].event.ref.forge

Fork(ref) == ref.kind = "pull_request" /\ ref.home # ref.repo

\* A fork whose repository exists is handled as one from the gate to the publisher: none
\* means no run, summary_only no inline comments though a rule may have set the whole
\* publish block, and the publisher is told, so that it never approves.
ForkPolicyKept ==
    \A i \in DOMAIN rows :
        LET m == rows[i].event
        IN  Fork(m.ref) /\ m.from # Gone =>
                /\ Pol(m).forkPolicy # "none"
                /\ Pol(m).forkPolicy = "summary_only" => ~rows[i].publish.inline
                /\ rows[i].publish.isFork
-----------------------------------------------------------------------------
(* What the documentation says and the code does not keep. *)

\* install.md: open, reopen or push to a pull request, and it gets its review.
PullRequestGetsRun ==
    \A m \in seen :
        m.ref.kind = "pull_request" /\ Admitted(m) =>
            \E i \in DOMAIN rows : rows[i].event.ref = m.ref /\ rows[i].head = m.commit

\* architecture.md: a run is superseded when a newer head of its pull request arrived.
SupersededByNewerHead ==
    [][\A i \in DOMAIN rows :
          rows[i].status # "superseded" /\ rows'[i].status = "superseded" =>
              \E j \in DOMAIN rows' : /\ rows'[j].event.ref = rows[i].event.ref
                                      /\ rows'[j].event.no > rows[i].event.no]_vars

\* plan.md: delivery ids are stored with the runs for replay protection.
OneRunPerDelivery ==
    \A i, j \in DOMAIN rows : rows[i].event = rows[j].event => i = j

\* config.go: a fork is never approved.
ForksAreTold ==
    \A i \in DOMAIN rows :
        Fork(rows[i].event.ref) => ~rows[i].publish.approvals \/ rows[i].publish.isFork
=============================================================================
