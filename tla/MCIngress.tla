------------------------------ MODULE MCIngress ------------------------------
(***************************************************************************)
(* Constants of the TLC runs of Ingress: a pull request, a fork and two    *)
(* branches of one repository, and a pull request of a repository of the   *)
(* same name at a second forge; forges in the order that is worst for the  *)
(* first; and policies that differ in what the gates look at.              *)
(***************************************************************************)
EXTENDS Ingress

Entry(id, type, secret) == [id |-> id, type |-> type, secret |-> secret]

\* The mirror's entry comes first, and one of a type that is not supported before it.
MCForgeList == <<Entry("gitlab", "gitlab", "s0"), Entry("mirror", "github", "s2"),
                 Entry("main", "github", "s1")>>

PR(forge, number, home) ==
    [forge |-> forge, repo |-> "org/x", kind |-> "pull_request", number |-> number,
     name |-> "", home |-> home]
Branch(name) ==
    [forge |-> "main", repo |-> "org/x", kind |-> "push", number |-> 0, name |-> name,
     home |-> "org/x"]

MCRefs      == {PR("main", 1, "me/x"), PR("mirror", 1, "org/x"), Branch("a")}
MCSameHead  == {PR("main", 1, "org/x"), PR("main", 2, "org/x")}

Policy1(forge, forkPolicy) ==
    [forge |-> forge, prompt |-> "p", engine |-> "m", limits |-> "l",
     pullRequest |-> {"synchronize", "labeled"}, push |-> {"a", "b"},
     publish |-> [inline |-> TRUE, approvals |-> TRUE], forkPolicy |-> forkPolicy]

Rule == [match |-> {"org/x"}, forge |-> Inherit, prompt |-> Inherit, engine |-> Inherit,
         limits |-> Inherit, pullRequest |-> Inherit, push |-> Inherit, publish |-> Inherit,
         forkPolicy |-> Inherit]

MCDefaults == {Policy1(Inherit, "full"), Policy1("main", "summary_only")}

\* A rule that sets what the policy of forks has to survive, and one that is ill-configured.
MCRuleLists == {<<>>,
    <<[Rule EXCEPT !.publish = [inline |-> TRUE, approvals |-> FALSE], !.forkPolicy = "summary_only"]>>,
    <<[Rule EXCEPT !.match = {"org/y"}, !.forkPolicy = "none"], [Rule EXCEPT !.pullRequest = {"labeled"}, !.forkPolicy = "none"]>>,
    <<[Rule EXCEPT !.forge = "gitlab"]>>, <<[Rule EXCEPT !.prompt = "missing"]>>}

MCPlain   == {Policy1(Inherit, "full")}
MCNoRules == {<<>>}
=============================================================================
