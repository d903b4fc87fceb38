------------------------- MODULE TaskSessionProofs -------------------------
(***************************************************************************)
(* What an edit which authorize-tool.mjs allows rests on, for any tasks,     *)
(* plans, paths and versions of the issues, however hooks and commands       *)
(* interleave.  A step concerns one run and at most one file, so what it     *)
(* has to show of the run and the file alone is proved once (StepKeeps).     *)
(***************************************************************************)
EXTENDS TaskSession, TLAPS

\* TypeOK and SessionInv together are inductive.
IInv == TypeOK /\ SessionInv

\* SessionInv of one run.
Sound(x) ==
  /\ x.at \in {"resolve", "fetchContract"} => x.task \in Tasks
  /\ x.at = "plan" => x.plan \in everApproved \cup {None}
  /\ x.at \in {"propose", "branch", "ancestor", "allowed"} =>
       x.plan \in PlanFileType \cup {None} /\ Genuine(x.plan)
  /\ x.at \in {"ancestor", "allowed"} => EditAllowed(x.contract, x.plan, x.path)

-----------------------------------------------------------------------------
(* Runs *)

LEMMA IdleRun == Idle \in RunType /\ Sound(Idle)
  BY DEF Idle, RunType, Sound

\* Neither a plan that is approved nor an approval that comes with a plan block
\* takes anything away from the other runs and files.
LEMMA StepGrows ==
  ASSUME IInv, NEW r \in Runs, NEW x \in RunType, Sound(x)',
         run' = [run EXCEPT ![r] = x],
         everApproved \subseteq everApproved', everApproved' \subseteq Plans,
         carried \subseteq carried', carried' \subseteq Plans,
         contractFile' \in ContractType \cup {None},
         planFile' \in PlanFileType \cup {None}, Genuine(planFile)'
  PROVE  IInv'
<1>1. TypeOK'
  BY DEF IInv, TypeOK
<1>2. ASSUME NEW s \in Runs
      PROVE  Sound(run[s])'
  <2>1. CASE s = r
    <3>1. run'[s] = x
      BY <2>1 DEF IInv, TypeOK
    <3>2. QED BY <3>1 DEF Sound
  <2>2. CASE s # r
    <3>1. run'[s] = run[s] /\ Sound(run[s])
      BY <2>2 DEF IInv, TypeOK, SessionInv, Sound
    <3>2. Genuine(run[s].plan) => Genuine(run[s].plan)'
      BY <3>1 DEF Genuine, Vouched
    <3>3. QED BY <3>1, <3>2 DEF Sound
  <2>3. QED BY <2>1, <2>2
<1>3. SessionInv'
  BY <1>2 DEF SessionInv, Sound
<1>4. QED BY <1>1, <1>3 DEF IInv

\* What the step of a run has to show for the whole to stay as it should be.
LEMMA StepKeeps ==
  ASSUME IInv, NEW r \in Runs, NEW x \in RunType, Sound(x),
         run' = [run EXCEPT ![r] = x], UNCHANGED history,
         contractFile' \in ContractType \cup {None},
         planFile' \in PlanFileType \cup {None}, Genuine(planFile')
  PROVE  IInv'
<1>1. everApproved' = everApproved /\ carried' = carried
  BY DEF history
<1>2. Sound(x)'
  BY <1>1 DEF Sound, Genuine, Vouched
<1>3. Genuine(planFile)'
  BY <1>1 DEF Genuine, Vouched
<1>4. everApproved \subseteq Plans /\ carried \subseteq Plans
  BY DEF IInv, TypeOK
<1>5. QED BY <1>1, <1>2, <1>3, <1>4, StepGrows

\* A run that only moves on.
LEMMA StepMoves ==
  ASSUME IInv, NEW r \in Runs, NEW x \in RunType, Sound(x),
         run' = [run EXCEPT ![r] = x], UNCHANGED <<history, fileVars>>
  PROVE  IInv'
<1>1. Genuine(planFile')
  BY DEF IInv, SessionInv, fileVars, Genuine
<1>2. contractFile' \in ContractType \cup {None} /\ planFile' \in PlanFileType \cup {None}
  BY DEF IInv, TypeOK, fileVars
<1>3. QED BY <1>1, <1>2, StepKeeps DEF fileVars

\* A run that ends, whatever file it has written.
LEMMA StepEnds ==
  ASSUME IInv, NEW r \in Runs, Ends(r), UNCHANGED history,
         contractFile' \in ContractType \cup {None},
         planFile' \in PlanFileType \cup {None}, Genuine(planFile')
  PROVE  IInv'
  BY IdleRun, StepKeeps DEF Ends

LEMMA StepGivesUp ==
  ASSUME IInv, NEW r \in Runs, Ends(r), UNCHANGED <<history, fileVars>>
  PROVE  IInv'
  BY IdleRun, StepMoves DEF Ends

\* A run at another step, with all it has read.
At(x, phase) == [x EXCEPT !.at = phase]

LEMMA AtType ==
  ASSUME NEW x \in RunType,
         NEW phase \in {"idle", "clear", "clearPlan", "resolve", "cache", "fetch", "plan",
                        "fetchContract", "cacheOnly", "propose",
                        "loadPlan", "branch", "ancestor", "allowed"}
  PROVE  /\ At(x, phase) \in RunType /\ At(x, phase).at = phase
         /\ At(x, phase).task = x.task /\ At(x, phase).contract = x.contract
         /\ At(x, phase).plan = x.plan /\ At(x, phase).path = x.path
  BY DEF At, RunType

LEMMA GotoIs ==
  ASSUME TypeOK, NEW r \in Runs, NEW phase, Goto(r, phase)
  PROVE  run' = [run EXCEPT ![r] = At(run[r], phase)]
  BY DEF Goto, At, TypeOK

-----------------------------------------------------------------------------
(* Runs that start *)

LEMMA StartsAt ==
  ASSUME IInv, NEW r \in Runs, NEW task \in Tasks \cup {None},
         NEW phase \in {"clear", "resolve", "fetchContract"},
         phase = "clear" \/ task \in Tasks,
         run' = [run EXCEPT ![r] = [Idle EXCEPT !.at = phase, !.task = task]],
         UNCHANGED <<history, fileVars>>
  PROVE  IInv'
<1> DEFINE x == [Idle EXCEPT !.at = phase, !.task = task]
<1>1. x \in RunType /\ Sound(x)
  BY DEF Idle, RunType, Sound
<1>2. run' = [run EXCEPT ![r] = x]
  OBVIOUS
<1> HIDE DEF x
<1>3. QED BY <1>1, <1>2, StepMoves

LEMMA FixtureStep ==
  ASSUME IInv, NEW task \in Tasks, FetchFixture(task)
  PROVE  IInv'
<1> DEFINE c == [task |-> task, version |-> 0, trusted |-> FALSE]
           x == [Idle EXCEPT !.at = "cacheOnly", !.contract = c]
<1>1. c \in ContractType
  BY SessionAssumption DEF ContractType
<1>2. run' = [run EXCEPT !["command"] = x] /\ UNCHANGED <<history, fileVars>>
  BY DEF FetchFixture
<1> HIDE DEF c
<1>3. x \in RunType /\ Sound(x)
  BY <1>1 DEF Idle, RunType, Sound
<1> HIDE DEF x
<1>4. QED BY <1>2, <1>3, StepMoves DEF Runs

\* A proposed plan has the approval that came with it, or none.
LEMMA ProposeStep ==
  ASSUME IInv, NEW r \in Runs, NEW plan \in Plans, ProposeBlock(r, plan)
  PROVE  IInv'
<1>1. PICK approval \in Plans \cup {None} :
        Propose(r, plan, approval) /\ carried' = carried \cup ({approval} \ {None})
  BY DEF ProposeBlock
<1> DEFINE f == [plan |-> plan, approval |-> approval]
           x == [Idle EXCEPT !.at = "propose", !.plan = f]
<1>2. f \in PlanFileType
  BY DEF PlanFileType
<1>3. Genuine(f)'
  BY <1>1 DEF Genuine, Vouched
<1>4. /\ run' = [run EXCEPT ![r] = x] /\ everApproved' = everApproved
      /\ contractFile' = contractFile /\ planFile' = planFile
  BY <1>1 DEF Propose, fileVars
<1>5. /\ everApproved' \subseteq Plans /\ carried \subseteq carried' /\ carried' \subseteq Plans
      /\ contractFile' \in ContractType \cup {None}
      /\ planFile' \in PlanFileType \cup {None}
  BY <1>1, <1>4 DEF IInv, TypeOK
<1>6. Genuine(planFile)'
  BY <1>1, <1>4 DEF IInv, SessionInv, Genuine, Vouched
<1> HIDE DEF f
<1>7. x \in RunType /\ x.at = "propose" /\ x.plan = f
  BY <1>2 DEF Idle, RunType
<1> HIDE DEF x
<1>8. Sound(x)'
  BY <1>2, <1>3, <1>7 DEF Sound
<1>9. QED BY <1>4, <1>5, <1>6, <1>7, <1>8, StepGrows

LEMMA AuthorizeStep ==
  ASSUME IInv, NEW path \in Files, Authorize(path)
  PROVE  IInv'
<1> DEFINE x == [Idle EXCEPT !.at = "loadPlan", !.path = path, !.contract = contractFile]
<1>1. x \in RunType /\ Sound(x)
  BY DEF Idle, RunType, Sound, IInv, TypeOK
<1>2. run' = [run EXCEPT !["hook"] = x] /\ UNCHANGED <<history, fileVars>>
  BY DEF Authorize
<1> HIDE DEF x
<1>3. QED BY <1>1, <1>2, StepMoves DEF Runs

-----------------------------------------------------------------------------
(* Runs that go on *)

LEMMA ReadIssueStep ==
  ASSUME IInv, NEW r \in Runs, ReadIssue(r)
  PROVE  IInv'
<1>1. UNCHANGED <<history, fileVars>>
  BY DEF ReadIssue
<1>2. CASE Ends(r)
  BY <1>1, <1>2, StepGivesUp
<1>3. ASSUME NEW version \in 0 .. MaxIssue,
             run' = [run EXCEPT
               ![r].at = IF run[r].at = "resolve" THEN "cache" ELSE "cacheOnly",
               ![r].contract = [task |-> run[r].task, version |-> version, trusted |-> TRUE]]
      PROVE  IInv'
  <2> DEFINE c == [task |-> run[r].task, version |-> version, trusted |-> TRUE]
             phase == IF run[r].at = "resolve" THEN "cache" ELSE "cacheOnly"
             y == [run[r] EXCEPT !.contract = c]
  <2>1. run[r].task \in Tasks /\ run[r] \in RunType
    BY DEF ReadIssue, IInv, SessionInv, TypeOK
  <2>2. c \in ContractType
    BY <2>1 DEF ContractType
  <2>3. run' = [run EXCEPT ![r] = At(y, phase)]
    BY <1>3, <2>1 DEF IInv, TypeOK, At
  <2> HIDE DEF c
  <2>4. y \in RunType
    BY <2>1, <2>2 DEF RunType
  <2> HIDE DEF y
  <2>5. At(y, phase) \in RunType /\ At(y, phase).at \in {"cache", "cacheOnly"}
    BY <2>4, AtType
  <2>6. Sound(At(y, phase))
    BY <2>5 DEF Sound
  <2>7. QED BY <1>1, <2>3, <2>5, <2>6, StepMoves
<1>4. QED BY <1>2, <1>3 DEF ReadIssue

LEMMA CacheContractStep ==
  ASSUME IInv, NEW r \in Runs, CacheContract(r)
  PROVE  IInv'
<1>1. /\ run[r] \in RunType /\ contractFile' = run[r].contract
      /\ planFile' = planFile /\ UNCHANGED history
  BY DEF CacheContract, IInv, TypeOK
<1>2. contractFile' \in ContractType \cup {None}
  BY <1>1 DEF RunType
<1>3. planFile' \in PlanFileType \cup {None} /\ Genuine(planFile')
  BY <1>1 DEF IInv, TypeOK, SessionInv, Genuine
<1>4. CASE Goto(r, "fetch")
  <2>1. run' = [run EXCEPT ![r] = At(run[r], "fetch")]
    BY <1>4, GotoIs DEF IInv
  <2>2. At(run[r], "fetch") \in RunType /\ At(run[r], "fetch").at = "fetch"
    BY <1>1, AtType
  <2>3. Sound(At(run[r], "fetch"))
    BY <2>2 DEF Sound
  <2>4. QED BY <1>1, <1>2, <1>3, <2>1, <2>2, <2>3, StepKeeps
<1>5. CASE Ends(r)
  BY <1>1, <1>2, <1>3, <1>5, StepEnds
<1>6. QED BY <1>4, <1>5 DEF CacheContract

\* What is fetched was approved.
LEMMA FetchPlanStep ==
  ASSUME IInv, NEW r \in Runs, FetchPlan(r)
  PROVE  IInv'
<1>1. run[r] \in RunType /\ UNCHANGED <<history, fileVars>>
  BY DEF FetchPlan, IInv, TypeOK
<1>2. PICK plan \in everApproved \cup {None} :
        run' = [run EXCEPT ![r].at = "plan", ![r].plan = plan]
  BY DEF FetchPlan
<1> DEFINE y == [run[r] EXCEPT !.plan = plan]
<1>3. run' = [run EXCEPT ![r] = At(y, "plan")]
  BY <1>1, <1>2 DEF IInv, TypeOK, At
<1>4. y \in RunType /\ y.plan = plan
  BY <1>1 DEF RunType, IInv, TypeOK
<1> HIDE DEF y
<1>5. /\ At(y, "plan") \in RunType /\ At(y, "plan").at = "plan"
      /\ At(y, "plan").plan = plan
  BY <1>4, AtType
<1>6. Sound(At(y, "plan"))
  BY <1>5 DEF Sound
<1>7. QED BY <1>1, <1>3, <1>5, <1>6, StepMoves

\* plan.json gets the approval of its own plan.
LEMMA WritePlanStep ==
  ASSUME IInv, NEW r \in Runs, WritePlan(r)
  PROVE  IInv'
<1>1. /\ run[r].plan \in everApproved \cup {None}
      /\ contractFile' = contractFile /\ UNCHANGED history /\ Ends(r)
  BY DEF WritePlan, IInv, SessionInv
<1>2. CASE run[r].plan = None
  <2>1. planFile' = None
    BY <1>2 DEF WritePlan
  <2>2. QED BY <1>1, <2>1, StepEnds DEF IInv, TypeOK, Genuine
<1>3. CASE run[r].plan # None
  <2>1. planFile' = [plan |-> run[r].plan, approval |-> run[r].plan]
    BY <1>3 DEF WritePlan
  <2>2. run[r].plan \in Vouched /\ run[r].plan \in Plans
    BY <1>1, <1>3 DEF IInv, TypeOK, Vouched
  <2>3. planFile' \in PlanFileType
    BY <2>1, <2>2 DEF PlanFileType
  <2>4. Genuine(planFile')
    BY <2>1, <2>2 DEF Genuine
  <2>5. QED BY <1>1, <2>3, <2>4, StepEnds DEF IInv, TypeOK
<1>4. QED BY <1>2, <1>3

LEMMA WriteProposalStep ==
  ASSUME IInv, NEW r \in Runs, WriteProposal(r)
  PROVE  IInv'
<1>1. /\ planFile' \in PlanFileType \cup {None} /\ Genuine(planFile')
      /\ contractFile' = contractFile /\ UNCHANGED history /\ Ends(r)
  BY DEF WriteProposal, IInv, SessionInv
<1>2. QED BY <1>1, StepEnds DEF IInv, TypeOK

LEMMA LoadPlanStep ==
  ASSUME IInv, NEW r \in Runs, LoadPlan(r)
  PROVE  IInv'
<1>1. run[r] \in RunType /\ UNCHANGED <<history, fileVars>>
  BY DEF LoadPlan, IInv, TypeOK
<1> DEFINE y == [run[r] EXCEPT !.plan = planFile]
<1>2. run' = [run EXCEPT ![r] = At(y, "branch")]
  BY <1>1 DEF LoadPlan, IInv, TypeOK, At
<1>3. y \in RunType /\ y.plan = planFile
  BY <1>1 DEF RunType, IInv, TypeOK
<1> HIDE DEF y
<1>4. /\ At(y, "branch") \in RunType /\ At(y, "branch").at = "branch"
      /\ At(y, "branch").plan = planFile
  BY <1>3, AtType
<1>5. Sound(At(y, "branch"))
  BY <1>4 DEF Sound, IInv, SessionInv, TypeOK
<1>6. QED BY <1>1, <1>2, <1>4, <1>5, StepMoves

\* An edit that has passed the checks so far goes on with what was checked.
LEMMA PassesStep ==
  ASSUME IInv, NEW r \in Runs, run[r].at \in {"branch", "ancestor"},
         NEW phase \in {"ancestor", "allowed"}, Goto(r, phase),
         EditAllowed(run[r].contract, run[r].plan, run[r].path),
         UNCHANGED <<history, fileVars>>
  PROVE  IInv'
<1> DEFINE x == At(run[r], phase)
<1>1. /\ run[r] \in RunType
      /\ run[r].plan \in PlanFileType \cup {None} /\ Genuine(run[r].plan)
  BY DEF IInv, SessionInv, TypeOK
<1>2. /\ x \in RunType /\ x.at = phase /\ x.contract = run[r].contract
      /\ x.plan = run[r].plan /\ x.path = run[r].path
  BY <1>1, AtType
<1>3. run' = [run EXCEPT ![r] = x]
  BY GotoIs DEF IInv
<1> HIDE DEF x
<1>4. Sound(x)
  BY <1>1, <1>2 DEF Sound
<1>5. QED BY <1>2, <1>3, <1>4, StepMoves

LEMMA CheckBranchStep ==
  ASSUME IInv, NEW r \in Runs, CheckBranch(r)
  PROVE  IInv'
<1>1. run[r].at = "branch" /\ UNCHANGED <<history, fileVars>>
  BY DEF CheckBranch
<1>2. \/ Goto(r, "ancestor") /\ EditAllowed(run[r].contract, run[r].plan, run[r].path)
      \/ Ends(r)
  BY DEF CheckBranch
<1>3. CASE Ends(r)
  BY <1>1, <1>3, StepGivesUp
<1>4. CASE ~Ends(r)
  BY <1>1, <1>2, <1>4, PassesStep
<1>5. QED BY <1>3, <1>4

LEMMA CheckAncestorStep ==
  ASSUME IInv, NEW r \in Runs, CheckAncestor(r)
  PROVE  IInv'
<1>1. /\ run[r].at = "ancestor" /\ UNCHANGED <<history, fileVars>>
      /\ EditAllowed(run[r].contract, run[r].plan, run[r].path)
  BY DEF CheckAncestor, IInv, SessionInv
<1>2. Goto(r, "allowed") \/ Ends(r)
  BY DEF CheckAncestor
<1>3. CASE Ends(r)
  BY <1>1, <1>3, StepGivesUp
<1>4. CASE Goto(r, "allowed")
  BY <1>1, <1>4, PassesStep
<1>5. QED BY <1>2, <1>3, <1>4

LEMMA ClearStep ==
  ASSUME IInv, NEW r \in Runs, ClearContract(r) \/ ClearPlan(r)
  PROVE  IInv'
<1>1. CASE ClearPlan(r)
  <2>1. /\ planFile' = None /\ contractFile' = contractFile
        /\ UNCHANGED history /\ Ends(r)
    BY <1>1 DEF ClearPlan
  <2>2. QED BY <2>1, StepEnds DEF IInv, TypeOK, Genuine
<1>2. CASE ClearContract(r)
  <2> DEFINE x == At(run[r], "clearPlan")
  <2>1. x \in RunType /\ x.at = "clearPlan"
    BY AtType DEF IInv, TypeOK
  <2>2. /\ contractFile' = None /\ planFile' = planFile
        /\ UNCHANGED history /\ run' = [run EXCEPT ![r] = x]
    BY <1>2, GotoIs DEF ClearContract, IInv
  <2> HIDE DEF x
  <2>3. Sound(x)
    BY <2>1 DEF Sound
  <2>4. Genuine(planFile') /\ planFile' \in PlanFileType \cup {None}
    BY <2>2 DEF IInv, TypeOK, SessionInv, Genuine
  <2>5. QED BY <2>1, <2>2, <2>3, <2>4, StepKeeps
<1>3. QED BY <1>1, <1>2

\* An approval that is given makes none of the others less genuine.
LEMMA ApproveStep ==
  ASSUME IInv, NEW plan \in Plans, Approve(plan)
  PROVE  IInv'
<1>1. /\ everApproved' = everApproved \cup {plan} /\ carried' = carried /\ run' = run
      /\ contractFile' = contractFile /\ planFile' = planFile
  BY DEF Approve, fileVars
<1>2. TypeOK'
  BY <1>1 DEF IInv, TypeOK
<1>3. Genuine(planFile)'
  BY <1>1 DEF IInv, SessionInv, Genuine, Vouched
<1>4. ASSUME NEW r \in Runs
      PROVE  Sound(run[r])'
  <2>1. Sound(run[r])
    BY DEF IInv, SessionInv, Sound
  <2>2. Genuine(run[r].plan) => Genuine(run[r].plan)'
    BY <1>1 DEF Genuine, Vouched
  <2>3. QED BY <1>1, <2>1, <2>2 DEF Sound
<1>5. SessionInv'
  BY <1>3, <1>4 DEF SessionInv, Sound
<1>6. QED BY <1>2, <1>5 DEF IInv

-----------------------------------------------------------------------------
(* The theorems *)

LEMMA InitOK == Init => IInv
<1> SUFFICES ASSUME Init PROVE IInv
  OBVIOUS
<1>1. \A r \in Runs : run[r] = Idle /\ Sound(run[r])
  BY IdleRun DEF Init
<1>2. TypeOK
  BY IdleRun DEF Init, TypeOK
<1>3. SessionInv
  BY <1>1 DEF SessionInv, Sound, Init, Genuine
<1>4. QED BY <1>2, <1>3 DEF IInv

LEMMA NextOK == IInv /\ [Next]_vars => IInv'
<1> SUFFICES ASSUME IInv, [Next]_vars PROVE IInv'
  OBVIOUS
<1>1. ASSUME NEW r \in Runs, NEW task \in Tasks, ResolveTask(r, task)
      PROVE  IInv'
  BY <1>1, StartsAt DEF ResolveTask
<1>2. ASSUME NEW task \in Tasks, FetchContract(task)
      PROVE  IInv'
  BY <1>2, StartsAt DEF FetchContract, Runs
<1>3. ASSUME NEW plan \in Plans, PlanStop(plan) \/ PlanGate(plan) \/ Materialize(plan)
      PROVE  IInv'
  BY <1>3, ProposeStep DEF PlanStop, PlanGate, Materialize, Runs
<1>4. ASSUME NEW task \in Tasks \cup {None}, SessionStart(task)
      PROVE  IInv'
  BY <1>4, StartsAt DEF SessionStart, Runs
<1>5. ASSUME NEW r \in Runs, Edit(r) \/ Killed(r)
      PROVE  IInv'
  BY <1>5, StepGivesUp DEF Edit, Killed
<1>6. CASE UNCHANGED vars
  BY <1>6 DEF vars, fileVars, history, IInv, TypeOK, SessionInv, Genuine, Vouched
<1>7. CASE Work
  BY <1>1, <1>2, <1>3, <1>5, <1>7, FixtureStep, AuthorizeStep, ClearStep, ReadIssueStep,
     CacheContractStep, FetchPlanStep, WritePlanStep, WriteProposalStep, LoadPlanStep,
     CheckBranchStep, CheckAncestorStep, ApproveStep DEF Work
<1>8. QED BY <1>4, <1>6, <1>7 DEF Next

\* The cached contract, plan.json and every run of a hook or a command hold
\* what they should, and any approval among them is one that people gave or one
\* that came inside a plan block: resolve-task.mjs, plan-stop.mjs, check-plan.mjs
\* and plan-contract.mjs all write plan.json, and none makes an approval up.
THEOREM SessionInvariant == Spec => [](TypeOK /\ SessionInv)
<1>1. Init => IInv
  BY InitOK
<1>2. IInv /\ [Next]_vars => IInv'
  BY NextOK
<1>3. QED BY <1>1, <1>2, PTL DEF Spec, IInv

\* Every edit that authorize-tool.mjs allows is inside a plan that is vouched
\* for, and for the contract that authorizes it, although the hook reads the
\* contract, the plan and the branch one after another while a command may
\* rewrite the files.
THEOREM EditsAreVouchedFor == Spec => []WritesAreVouchedFor
<1>1. IInv => WritesAreVouchedFor
  BY DEF IInv, SessionInv, WritesAreVouchedFor, Runs, EditAllowed, PlanApproved, Genuine
<1>2. QED BY <1>1, SessionInvariant, PTL DEF IInv

\* So people approved the plan of every allowed edit, as long as the plan blocks
\* that plan-stop, plan:gate and plan:materialize were given carried no approval
\* but those that people gave.
THEOREM EditsAreApproved ==
  Spec => [](carried \subseteq everApproved /\ run["hook"].at = "allowed"
               => run["hook"].plan.plan \in everApproved)
<1>1. WritesAreVouchedFor => (carried \subseteq everApproved /\ run["hook"].at = "allowed"
                                => run["hook"].plan.plan \in everApproved)
  BY DEF WritesAreVouchedFor, Vouched
<1>2. QED BY <1>1, EditsAreVouchedFor, PTL

\* The cached files hold contracts and plans or nothing, and each hook and each
\* command is at a step of its own script (session-start.mjs, check-plan.mjs,
\* authorize-tool.mjs).
THEOREM SessionTypes == Spec => []TypeOK
<1>1. QED BY SessionInvariant, PTL
=============================================================================
