---------------------------- MODULE MCAgentLoop ----------------------------
(* A task with its plans, one of them with too low a risk, and another task; *)
(* trees that are good, that leave the criterion unproven and that fail.     *)
EXTENDS AgentLoop, TLC

CONSTANTS good, skipped, wide, task, other, narrow, broad, control, rival,
          stray, b1, b2

app      == <<"src", "app.ts">>
api      == <<"src", "api", "orders.ts">>
script   == <<"scripts", "seed.ts">>
workflow == <<".github", "workflows", "ci.yml">>
settings == <<"src.json">>

srcAll       == <<"src", "**">>
apiAll       == <<"src", "api", "**">>
tsAnywhere   == <<"**", "*.ts">>
githubAll    == <<".github", "**">>
workflowsAll == <<".github", "workflows", "**">>
scriptsAll   == <<"scripts", "**">>
srcDirect    == <<"src", "*">>
apiDirectory == <<"src", "api">>
srcBeside    == <<"src*">>
workInGithub == <<".github", "work*", "ci.yml">>
prose        == <<"deployment configuration">>

MCPaths  == {app, api, script, workflow, settings}
MCCovers == srcAll :> {app, api} @@ apiAll :> {api} @@ tsAnywhere :> {app, api, script}
            @@ githubAll :> {workflow} @@ workflowsAll :> {workflow}
            @@ workInGithub :> {workflow} @@ srcBeside :> {settings}
            @@ scriptsAll :> {script} @@ srcDirect :> {app} @@ apiDirectory :> {api}
            @@ <<"**">> :> MCPaths
            @@ [p \in MCPaths |-> {p}]
MCGlobs  == "*.ts" :> {"app.ts", "orders.ts", "seed.ts"}
            @@ "src*" :> {"src", "src*", "src.json"} @@ "work*" :> {"work*", "workflows"}
MCHeads  == "src*" :> "src" @@ "work*" :> "work"
MCBeginnings == {<<"src", "src*">>, <<"src", "src.json">>,
                 <<"work", "work*">>, <<"work", "workflows">>}
MCDotted == {"*.ts", "app.ts", "orders.ts", "seed.ts", "ci.yml", "src.json"}
MCPathRisk == {[pattern |-> workflowsAll, risk |-> "high"],
               [pattern |-> scriptsAll, risk |-> "high"],
               [pattern |-> <<"**">>, risk |-> "medium"]}
MCOperationRisk == "dependency-change" :> "medium"

MCContractOf ==
  task :> [branch |-> task, criteria |-> {"criterion"},
           scope |-> [allowed |-> {srcAll, githubAll, tsAnywhere},
                      prohibited |-> {apiAll, prose}]]
  @@ other :> [branch |-> other, criteria |-> {},
               scope |-> [allowed |-> {srcDirect}, prohibited |-> {}]]

\* The checks that policy.json asks of medium risk, less those like secret-scan.
medium == {"plan-contract", "scope-policy", "quality", "acceptance", "secret-scan",
           "merge-validation", "human-review", "evidence"}
MCChecksOfRisk == [r \in {"low", "medium", "high", "critical"} |-> medium]

Planned(c, base, allowed) ==
  [contract |-> c, base |-> base, operations |-> {}, risk |-> "medium", checks |-> medium,
   scope |-> [allowed |-> allowed, prohibited |-> {}]]
MCPlanOf == narrow :> Planned(task, b1, {srcAll}) @@ broad :> Planned(task, b1, {tsAnywhere, srcBeside})
            @@ control :> Planned(task, b1, {srcAll, workInGithub})
            @@ rival :> Planned(other, b2, {app}) @@ stray :> Planned(other, b1, {app, apiDirectory})

\* As commits skipped changes what is prohibited and wide what has a higher risk.
MCChanged   == good :> {app} @@ skipped :> {app, api} @@ wide :> {app, script}
MCMergeable == {b1} \X {good, skipped, wide} \cup {<<b2, wide>>}

Case(outcome) == {[name |-> "criterion", outcome |-> outcome]}
MCUnitCases == [t \in {good, skipped, wide} |->
                  {[name |-> "unit", outcome |-> IF t = wide THEN "failed" ELSE "passed"]}]
MCAcceptanceCases == good :> Case("passed") @@ skipped :> Case("skipped")
                     @@ wide :> Case("failed")
\* At the task, with a plan of another, and with nothing; others may bring other
\* contracts and plans.
MCOpenings == {[tree |-> good, contract |-> task, plan |-> narrow],
               [tree |-> good, contract |-> task, plan |-> stray],
               [tree |-> wide, contract |-> None, plan |-> None]}
MCScans == <<"secret-scan">>
=============================================================================
