------------------------------- MODULE Policy -------------------------------
(***************************************************************************)
(* From the configuration file to the configuration of the steps:          *)
(* config.Resolve merges the defaults with the first rule that matches the *)
(* repository, job.Build writes the environment of the steps, and          *)
(* reviewer.FromEnv and publisher.FromEnv read it.  A policy is a record   *)
(* of the fields a module is about: in a file, an unset number is 0 and an *)
(* unset string is empty; a rule leaves out a field with Inherit.          *)
(***************************************************************************)
EXTENDS Integers, Sequences, SequencesExt

CONSTANT Inherit    \* the nil or empty field of a rule, no value of any field

Empty == ""

LimitFields == {"maxFiles", "maxBytes", "maxCost"}

\* A rule overrides triggers, limits and publish as blocks, and the rest field by field.
Override(base, value) == IF value = Inherit THEN base ELSE value

\* matchRepo: a rule holds for the repositories its pattern covers.
Matches(rule, repo) == repo \in rule.match

\* Resolve: the first match wins.
Resolve(defaults, rules, repo) ==
    LET i == SelectInSeq(rules, LAMBDA rule : Matches(rule, repo))
    IN  IF i = 0 THEN defaults
        ELSE [field \in DOMAIN defaults |-> Override(defaults[field], rules[i][field])]

\* reviewStep: every number is written, a 0 too.
ReviewEnv(policy) ==
    [strategy |-> IF policy.strategy = Empty THEN "oneshot" ELSE policy.strategy,
     maxTurns |-> policy.maxTurns,
     maxFiles |-> policy.limits.maxFiles,
     maxBytes |-> policy.limits.maxBytes,
     maxCost  |-> policy.limits.maxCost]

\* FromEnv: a default stands in for a variable that is not set, and none of these is ever
\* unset.  Any strategy but "agentic" is oneshot.
FromEnv(env) ==
    [env EXCEPT !.strategy = IF @ = "agentic" THEN "agentic" ELSE "oneshot"]
=============================================================================
