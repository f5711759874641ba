------------------------- MODULE ApplicationsProofs -------------------------
(***************************************************************************)
(* The theorems about releases and about consoles, for the parts of        *)
(* MCApplications that are instances of Release and of Integration: what   *)
(* holds of a component holds of the part, because the part's steps are    *)
(* the component's and every other step leaves it alone.                   *)
(***************************************************************************)
EXTENDS MCApplications, TLAPS

RollbackProofs == INSTANCE ReleaseProofs WITH
    ReleaseId <- Serial, Request <- Serial, MaxDBFaults <- SerialFaults, MaxCrashes <- SerialCrashes,
    rel <- x1, op <- x2, req <- x3, exec <- x4, cluster <- x5, ready <- x6, readied <- x7, solo <- x8, dbFaults <- x9, crashes <- x10

ConsoleProofs == INSTANCE IntegrationProofs WITH
    Slots <- Request, MaxRequests <- ConsoleRequests,
    capabilities <- x1, sessions <- x2, handed <- x3, delegations <- x4, templates <- x5, default <- x6,
    releases <- x7, mutex <- x8, slots <- x9, requests <- x10

\* A behaviour belongs to one part.
LEMMA OnePart ==
    ASSUME NEW CONSTANT p, [MCNext]_<<active, vars, state>>
    PROVE  active = p <=> active' = p
BY Zenon DEF MCNext

\* The steps of the consoles are those of Integration.
LEMMA ConsoleSteps ==
    MCSpec /\ active = "integration" => ConsoleProofs!Spec
<1>1. MCInit /\ active = "integration" => ConsoleProofs!Init
  <2>1. MCInit /\ active = "integration" => Consoles!Init
    BY DEF MCInit
  <2>2. Consoles!Init <=> ConsoleProofs!Init
    BY DEF Consoles!Init, Consoles!Idle, Consoles!Ids, Consoles!Signed, Consoles!Actions, ConsoleProofs!Init,
           ConsoleProofs!Idle, ConsoleProofs!Ids, ConsoleProofs!Signed, ConsoleProofs!Actions
  <2> QED
    BY <2>1, <2>2
<1>2. [MCNext]_<<active, vars, state>> /\ active = "integration" => [ConsoleProofs!Next]_ConsoleProofs!vars
  <2>1. Consoles!Next <=> ConsoleProofs!Next
    BY DEF Consoles!Next, Consoles!ConsoleNext, Consoles!CreateDelegation, Consoles!ExchangeIntegrationSession,
           Consoles!ExpireStep, Consoles!Ids, Consoles!IntegrationRestartApplication,
           Consoles!SetDefaultDeploymentTemplate, Consoles!UpdateCapabilities, Consoles!UpdateDeploymentTemplate,
           Consoles!createIntegrationDelegation, Consoles!createIntegrationHandoff,
           Consoles!IntegrationGetManagedConfigMap, Consoles!IntegrationReplaceManagedConfigMap, Consoles!Lock,
           Consoles!ReplaceRead, Consoles!ReplaceWrite, Consoles!createRestartRelease, Consoles!Actions, Consoles!Arrive,
           Consoles!GenerateDelegationToken, Consoles!ParseDelegationToken, Consoles!Exchangeable, Consoles!Expire,
           Consoles!GetDefault, Consoles!integrationApplication, Consoles!Overtake, Consoles!GetActiveIntegrationSession,
           Consoles!CreateIntegrationSession, Consoles!Idle, Consoles!IntegrationDiscoverApplications,
           Consoles!templateConfigMap, Consoles!Allows, Consoles!MutexFree, Consoles!ExpectedRevision, Consoles!Leave,
           Consoles!UpdateIfRevision, Consoles!InScope, Consoles!configMapKeyEnabled, Consoles!AllowsApplication,
           Consoles!AllowsEnvironment, Consoles!applicationHasCapability, ConsoleProofs!Next, ConsoleProofs!ConsoleNext,
           ConsoleProofs!CreateDelegation, ConsoleProofs!ExchangeIntegrationSession, ConsoleProofs!ExpireStep,
           ConsoleProofs!Ids, ConsoleProofs!IntegrationRestartApplication, ConsoleProofs!SetDefaultDeploymentTemplate,
           ConsoleProofs!UpdateCapabilities, ConsoleProofs!UpdateDeploymentTemplate,
           ConsoleProofs!createIntegrationDelegation, ConsoleProofs!createIntegrationHandoff,
           ConsoleProofs!IntegrationGetManagedConfigMap, ConsoleProofs!IntegrationReplaceManagedConfigMap,
           ConsoleProofs!Lock, ConsoleProofs!ReplaceRead, ConsoleProofs!ReplaceWrite, ConsoleProofs!createRestartRelease,
           ConsoleProofs!Actions, ConsoleProofs!Arrive, ConsoleProofs!GenerateDelegationToken,
           ConsoleProofs!ParseDelegationToken, ConsoleProofs!Exchangeable, ConsoleProofs!Expire,
           ConsoleProofs!GetDefault, ConsoleProofs!integrationApplication, ConsoleProofs!Overtake,
           ConsoleProofs!GetActiveIntegrationSession, ConsoleProofs!CreateIntegrationSession, ConsoleProofs!Idle,
           ConsoleProofs!IntegrationDiscoverApplications, ConsoleProofs!templateConfigMap, ConsoleProofs!Allows,
           ConsoleProofs!MutexFree, ConsoleProofs!ExpectedRevision, ConsoleProofs!Leave, ConsoleProofs!UpdateIfRevision,
           ConsoleProofs!InScope, ConsoleProofs!configMapKeyEnabled, ConsoleProofs!AllowsApplication,
           ConsoleProofs!AllowsEnvironment, ConsoleProofs!applicationHasCapability
  <2> QED
    BY <2>1 DEF MCNext, state, ConsoleProofs!vars
<1>3. [MCNext]_<<active, vars, state>> => (active = "integration" <=> (active = "integration")')
  BY OnePart
<1> QED
  BY <1>1, <1>2, <1>3, PTL DEF MCSpec, ConsoleProofs!Spec

\* A handoff code opens one console session, and the release a console asks for carries
\* the content it saved (ExchangeIntegrationSession, createRestartRelease), for every
\* number of applications, consoles, codes and requests.
THEOREM ConsolesServed == MCSpec => []ConsoleSessions
<1>1. ConsoleProofs!Grounded
  BY PartsAssumption DEF ConsoleProofs!Grounded, ConsoleProofs!SessionRow
<1>2. /\ ConsoleProofs!TypeOK <=> Consoles!TypeOK
      /\ ConsoleProofs!HandoffOnce <=> Consoles!HandoffOnce
      /\ ConsoleProofs!RestartReadsSaved <=> Consoles!RestartReadsSaved
  BY DEF Consoles!TypeOK, Consoles!Claims, Consoles!Ids, Consoles!StoredTemplate, Consoles!Actions,
         Consoles!HandoffOnce, Consoles!RestartReadsSaved, Consoles!GetDefault, ConsoleProofs!TypeOK,
         ConsoleProofs!Claims, ConsoleProofs!Ids, ConsoleProofs!StoredTemplate, ConsoleProofs!Actions,
         ConsoleProofs!HandoffOnce, ConsoleProofs!RestartReadsSaved, ConsoleProofs!GetDefault
<1>3. ConsoleProofs!TypeOK /\ ConsoleProofs!HandoffOnce /\ ConsoleProofs!RestartReadsSaved => ConsoleSessions
  BY <1>2 DEF ConsoleSessions
<1>4. ~(active = "integration") => ConsoleSessions
  BY DEF ConsoleSessions
<1>5. [MCNext]_<<active, vars, state>> => (active = "integration" <=> (active = "integration")')
  BY OnePart
<1> QED
  BY <1>1, <1>3, <1>4, <1>5, ConsoleSteps, ConsoleProofs!OneSession, PTL DEF MCSpec

\* The steps of the rollbacks are those of Release.
LEMMA RollbackSteps ==
    MCSpec /\ active = "rollbacks" => RollbackProofs!Spec
<1>1. MCInit /\ active = "rollbacks" => RollbackProofs!Init
  <2>1. MCInit /\ active = "rollbacks" => Rollbacks!Init
    BY DEF MCInit
  <2>2. Rollbacks!Init <=> RollbackProofs!Init
    BY DEF Rollbacks!Init, Rollbacks!IdleExec, Rollbacks!IdleRequest, Rollbacks!NoRow, Rollbacks!Resource,
           Rollbacks!Step, RollbackProofs!Init, RollbackProofs!IdleExec, RollbackProofs!IdleRequest,
           RollbackProofs!NoRow, RollbackProofs!Resource, RollbackProofs!Step
  <2> QED
    BY <2>1, <2>2
<1>2. [MCNext]_<<active, vars, state>> /\ active = "rollbacks" => [RollbackProofs!Next]_RollbackProofs!vars
  <2>1. Rollbacks!Next <=> RollbackProofs!Next
    BY DEF Rollbacks!Next, Rollbacks!Begin, Rollbacks!Crash, Rollbacks!Execute, Rollbacks!InsertRelease,
           Rollbacks!Launch, Rollbacks!ListReleases, Rollbacks!SaveAttribution, Rollbacks!WorkloadReady,
           Rollbacks!WorkloadUnready, Rollbacks!BeginCreate, Rollbacks!BeginRestart, Rollbacks!BeginRetry,
           Rollbacks!BeginRollback, Rollbacks!Apply, Rollbacks!BeginStep, Rollbacks!FailRelease, Rollbacks!RunCheck,
           Rollbacks!RunTransition, Rollbacks!StartExecution, Rollbacks!WaitReady, Rollbacks!DBFault, Rollbacks!DBOk,
           Rollbacks!DraftRow, Rollbacks!EndRequest, Rollbacks!Existing, Rollbacks!SequenceTaken, Rollbacks!IdleExec,
           Rollbacks!IsLatest, Rollbacks!Derive, Rollbacks!Succeeded, Rollbacks!ReadyAfterApply, Rollbacks!StepDone,
           Rollbacks!Step, Rollbacks!Transition, Rollbacks!Advanced, Rollbacks!Finish, Rollbacks!SoloAfterStart,
           Rollbacks!NoRow, Rollbacks!IdleRequest, Rollbacks!After, Rollbacks!Active, RollbackProofs!Next,
           RollbackProofs!Begin, RollbackProofs!Crash, RollbackProofs!Execute, RollbackProofs!InsertRelease,
           RollbackProofs!Launch, RollbackProofs!ListReleases, RollbackProofs!SaveAttribution,
           RollbackProofs!WorkloadReady, RollbackProofs!WorkloadUnready, RollbackProofs!BeginCreate,
           RollbackProofs!BeginRestart, RollbackProofs!BeginRetry, RollbackProofs!BeginRollback, RollbackProofs!Apply,
           RollbackProofs!BeginStep, RollbackProofs!FailRelease, RollbackProofs!RunCheck, RollbackProofs!RunTransition,
           RollbackProofs!StartExecution, RollbackProofs!WaitReady, RollbackProofs!DBFault, RollbackProofs!DBOk,
           RollbackProofs!DraftRow, RollbackProofs!EndRequest, RollbackProofs!Existing, RollbackProofs!SequenceTaken,
           RollbackProofs!IdleExec, RollbackProofs!IsLatest, RollbackProofs!Derive, RollbackProofs!Succeeded,
           RollbackProofs!ReadyAfterApply, RollbackProofs!StepDone, RollbackProofs!Step, RollbackProofs!Transition,
           RollbackProofs!Advanced, RollbackProofs!Finish, RollbackProofs!SoloAfterStart, RollbackProofs!NoRow,
           RollbackProofs!IdleRequest, RollbackProofs!After, RollbackProofs!Active
  <2> QED
    BY <2>1 DEF MCNext, state, RollbackProofs!vars
<1>3. [MCNext]_<<active, vars, state>> => (active = "rollbacks" <=> (active = "rollbacks")')
  BY OnePart
<1> QED
  BY <1>1, <1>2, <1>3, PTL DEF MCSpec, RollbackProofs!Spec

\* What a rollback or a restart deploys is what an earlier release deployed with success,
\* also when its queries race with another execution: for every number of releases,
\* requests, failing database calls and crashes.
THEOREM RollbacksDerived == MCSpec => []RollbackSources
<1>1. None \notin Serial \cup Template \cup Image /\ SerialFaults \in Nat /\ SerialCrashes \in Nat
  BY PartsAssumption, ConstantsAssumption
<1>2. RollbackProofs!DerivedFromSuccess <=> Rollbacks!DerivedFromSuccess
  BY DEF Rollbacks!DerivedFromSuccess, Rollbacks!Existing, Rollbacks!Succeeded, RollbackProofs!DerivedFromSuccess,
         RollbackProofs!Existing, RollbackProofs!Succeeded
<1>3. RollbackProofs!DerivedFromSuccess => RollbackSources
  BY <1>2 DEF RollbackSources
<1>4. ~(active = "rollbacks") => RollbackSources
  BY DEF RollbackSources
<1>5. [MCNext]_<<active, vars, state>> => (active = "rollbacks" <=> (active = "rollbacks")')
  BY OnePart
<1>6. RollbackProofs!Spec => []RollbackProofs!DerivedFromSuccess
  BY <1>1, RollbackProofs!Derivation
<1> QED
  BY <1>3, <1>4, <1>5, <1>6, RollbackSteps, PTL DEF MCSpec
=============================================================================
