-------------------------- MODULE LedgerSetupProofs --------------------------
(***************************************************************************)
(* Proofs about LedgerSetup, for any issuers, names, DIDs and tags, and    *)
(* any number of scenarios and faults.                                     *)
(***************************************************************************)
EXTENDS LedgerSetup, TLAPS

\* The one DID issuer i writes under.
Home(i) == IF kind[i] = "credo" THEN seed[i] ELSE public[i]

\* Which DIDs a wallet may hold, and that a public one is on the ledger.
Owns ==
  /\ \A i \in Issuers :
       /\ kind[i] = "credo" => /\ seed[i] # None /\ seed[i] \in ledgerDids
                               /\ dids[i] \subseteq {seed[i]} /\ public[i] \in {seed[i], None}
       /\ kind[i] = "acapy" => seed[i] = None
       /\ public[i] # None => public[i] \in dids[i] /\ public[i] \in ledgerDids
  /\ \A i, j \in Issuers : \A d \in Dids :
       i # j => ~(d \in dids[i] \cup {seed[i]} /\ d \in dids[j] \cup {seed[j]})

\* Whose the objects on the ledger and in the wallets are.
Filed ==
  /\ \A s \in ledgerSchemas : \E i \in Issuers : s.did = Home(i)
  /\ \A i \in Issuers : \A s \in schemas[i] : s \in ledgerSchemas /\ s.did = public[i]
  /\ \A i \in Issuers : \A d \in definitions[i] : d \in ledgerDefinitions /\ d.did = public[i]

HasSchema ==
  /\ schema_id \in ledgerSchemas /\ schema_id \in Schemas
  /\ schema_id.name = scenario.name /\ schema_id.did = issuer_did

HasDefinition ==
  /\ definition_id \in ledgerDefinitions /\ definition_id \in definitions[Issuer]
  /\ definition_id.tag = tag /\ definition_id.schema = schema_id
  /\ definition_id.did = issuer_did

AfterDid == {"find schema", "post schema", "find definition", "post definition", "get schema",
             "get definition"}
AfterSchema == {"find definition", "post definition", "get schema", "get definition"}
AfterDefinition == {"get schema", "get definition"}

\* What has been achieved by the time of a request.
Progress ==
  /\ request \in {"create did", "register did", "publish did", "get did"} => kind[Issuer] = "acapy"
  /\ request \in {"create did", "register did", "publish did"} => public[Issuer] = None
  /\ request \in {"register did", "publish did"} => did \in dids[Issuer]
  /\ request = "publish did" => did \in ledgerDids
  /\ request = "get did" /\ public[Issuer] = None => faulted
  /\ request \in AfterDid => issuer_did = public[Issuer] /\ issuer_did # None
  /\ request \in AfterSchema => HasSchema
  /\ request = "post definition" => CreatedDefinitions = {}
  /\ request \in AfterDefinition => HasDefinition

\* What a verdict stands for.
Verdicts ==
  /\ verdict # "running" => request = "none"
  /\ verdict = "passed" => /\ issuer_did = public[Issuer] /\ issuer_did # None
                           /\ HasSchema /\ HasDefinition
  /\ CleanRetry

Made == \A d \in made : d.revocable = scenario.revocable \/ kind[Issuer] = "credo"

Inv == TypeOK /\ Owns /\ Filed /\ Progress /\ Verdicts /\ Made

----------------------------------------------------------------------------
(* Types.                                                                  *)

LEMMA FreshDidIsNew ==
  ASSUME FreshDids # {}
  PROVE  NewDid \in Dids /\ \A i \in Issuers : NewDid \notin dids[i] /\ NewDid # seed[i]
BY DEF FreshDids, NewDid

LEMMA ScenarioTypes ==
  ASSUME TypeOK
  PROVE  Issuer \in Issuers /\ scenario.name \in Names /\ scenario.revocable \in BOOLEAN
BY LedgerSetupAssumption DEF TypeOK, Issuer

\* A schema is written under a public DID, a definition over a schema as well.
Writable ==
  /\ request = "post schema" => public[Issuer] # None
  /\ request = "post definition" => public[Issuer] # None /\ schema_id \in Schemas

LEMMA WritableFromProgress ==
  ASSUME Progress
  PROVE  Writable
BY DEF Progress, Writable, AfterDid, AfterSchema, HasSchema

LEMMA NewSchemaType ==
  ASSUME TypeOK, Writable, request = "post schema"
  PROVE  NewSchema \in Schemas
BY ScenarioTypes DEF TypeOK, Writable, NewSchema, Schemas

LEMMA NewDefinitionType ==
  ASSUME TypeOK, Writable, request = "post definition"
  PROVE  NewDefinition \in Definitions
BY ScenarioTypes DEF TypeOK, Writable, NewDefinition, Definitions

\* The variables a fault may change.
LEMMA EffectTypes ==
  ASSUME TypeOK, Writable, Effect,
         request = "publish did" \/ request = "register did" => did \in Dids
  PROVE  /\ dids' \in [Issuers -> SUBSET Dids] /\ public' \in [Issuers -> Dids \cup {None}]
         /\ schemas' = schemas /\ definitions' = definitions
         /\ ledgerDids' \subseteq Dids /\ ledgerSchemas' \subseteq Schemas
         /\ ledgerDefinitions' \subseteq Definitions
<1>0. Issuer \in Issuers BY ScenarioTypes
<1>1. CASE UNCHANGED <<wallet, ledger>> BY <1>1 DEF TypeOK, wallet, ledger
<1>2. CASE request = "create did" /\ Creates
  BY <1>0, <1>2, FreshDidIsNew DEF Creates, TypeOK, ledger
<1>3. CASE request = "register did" /\ Registers BY <1>3 DEF Registers, TypeOK, wallet
<1>4. CASE request = "publish did" /\ Publishes BY <1>0, <1>4 DEF Publishes, TypeOK, ledger
<1>5. CASE request = "post schema" /\ WritesSchema /\ UNCHANGED schemas
  BY <1>5, NewSchemaType DEF WritesSchema, TypeOK
<1>6. CASE request = "post definition" /\ WritesDefinition /\ UNCHANGED definitions
  BY <1>6, NewDefinitionType DEF WritesDefinition, Others, TypeOK
<1> QED BY <1>1, <1>2, <1>3, <1>4, <1>5, <1>6 DEF Effect

LEMMA HappensTypes ==
  ASSUME TypeOK, Happens
  PROVE  faults' \in 0..MaxFaults /\ faulted' \in BOOLEAN
<1>1. faults \in 0..MaxFaults /\ MaxFaults \in Nat BY LedgerSetupAssumption DEF TypeOK
<1>2. faults < MaxFaults /\ faults' = faults + 1 /\ faulted' = TRUE BY DEF Happens
<1> QED BY <1>1, <1>2

LEMMA TypeStep ==
  ASSUME TypeOK, Progress, Owns, [Next]_vars
  PROVE  TypeOK'
<1>0. Issuer \in Issuers BY ScenarioTypes
<1>1. Writable BY WritableFromProgress
<1>2. request = "publish did" \/ request = "register did" => did \in Dids
  BY <1>0 DEF Progress, TypeOK
<1>3. CASE FoundDid
  BY <1>0, <1>2, <1>3
  DEF FoundDid, Reads, TypeOK, Requests, Asks, Then, Fail, fixed, wallet, ledger, context
<1>4. CASE NoDid
  BY <1>0, <1>2, <1>4
  DEF NoDid, TypeOK, Requests, Asks, Then, Fail, fixed, wallet, ledger, context
<1>5. CASE CreateDid
  BY <1>0, <1>2, <1>5, FreshDidIsNew
  DEF CreateDid, Creates, TypeOK, Requests, Asks, Then, Fail, fixed, wallet, ledger, context
<1>6. CASE RegisterDid
  BY <1>0, <1>2, <1>6
  DEF RegisterDid, Registers, TypeOK, Requests, Asks, Then, Fail, fixed, wallet, ledger, context
<1>7. CASE PublishDid
  BY <1>0, <1>2, <1>7
  DEF PublishDid, Publishes, TypeOK, Requests, Asks, Then, Fail, fixed, wallet, ledger, context
<1>8. CASE GetDid
  BY <1>0, <1>2, <1>8
  DEF GetDid, Reads, TypeOK, Requests, Asks, Then, Fail, fixed, wallet, ledger, context
<1>9. CASE FoundSchema
  BY <1>0, <1>2, <1>9
  DEF FoundSchema, ThenDefinition, CreatedSchemas, TypeOK, Requests, Asks, Then, Fail, fixed, wallet, ledger, context
<1>10. CASE NoSchema
  BY <1>0, <1>2, <1>10
  DEF NoSchema, TypeOK, Requests, Asks, Then, Fail, fixed, wallet, ledger, context
<1>11. CASE PostSchema
  BY <1>0, <1>2, <1>11, <1>1, NewSchemaType
  DEF PostSchema, WritesSchema, ThenDefinition, TypeOK, Requests, Asks, Then, Fail, fixed, wallet, ledger, context
<1>12. CASE SchemaRefused
  BY <1>0, <1>2, <1>12
  DEF SchemaRefused, TypeOK, Requests, Asks, Then, Fail, fixed, wallet, ledger, context
<1>13. CASE FoundDefinition
  BY <1>0, <1>2, <1>13
  DEF FoundDefinition, CreatedDefinitions, TypeOK, Requests, Asks, Then, Fail, fixed, wallet, ledger, context
<1>14. CASE NoDefinition
  BY <1>0, <1>2, <1>14
  DEF NoDefinition, TypeOK, Requests, Asks, Then, Fail, fixed, wallet, ledger, context
<1>15. CASE PostDefinition
  BY <1>0, <1>2, <1>15, <1>1, NewDefinitionType
  DEF PostDefinition, WritesDefinition, Others, TypeOK, Requests, Asks, Then, Fail, fixed, wallet, ledger, context
<1>16. CASE DefinitionRefused
  BY <1>0, <1>2, <1>16
  DEF DefinitionRefused, TypeOK, Requests, Asks, Then, Fail, fixed, wallet, ledger, context
<1>17. CASE GetSchema
  BY <1>0, <1>2, <1>17
  DEF GetSchema, TypeOK, Requests, Asks, Then, Fail, fixed, wallet, ledger, context
<1>18. CASE GetDefinition
  BY <1>0, <1>2, <1>18
  DEF GetDefinition, TypeOK, Requests, Asks, Then, Fail, fixed, wallet, ledger, context
<1>19. CASE Fault
  <2>1. Effect BY <1>19 DEF Fault
  <2>2. UNCHANGED <<kind, seed, scenario, runs, context, did, made>> BY <1>19 DEF Fault
  <2>0. Happens BY <1>19 DEF Fault
  <2>3. faults' \in 0..MaxFaults /\ faulted' \in BOOLEAN
    BY <2>0, HappensTypes
  <2>4. request' \in Requests /\ verdict' \in {"running", "passed", "failed"}
    BY <1>19 DEF Fault, OnError, TypeOK, Requests
  <2> QED BY <1>1, <1>2, <2>1, <2>2, <2>3, <2>4, EffectTypes DEF TypeOK, context
<1>20. CASE RestartCredo
  BY <1>0, <1>2, <1>20
  DEF RestartCredo, Restarts, TypeOK, Requests, Asks, Then, Fail, fixed, wallet, ledger, context
<1>21. CASE RestartFails
  <2>0. Happens BY <1>21 DEF RestartFails
  <2>1. faults' \in 0..MaxFaults /\ faulted' \in BOOLEAN
    BY <2>0, HappensTypes
  <2>2. UNCHANGED <<kind, seed, scenario, runs, ledger, context, did, made>>
    BY <1>21 DEF RestartFails
  <2>3. request' \in Requests /\ verdict' \in {"running", "passed", "failed"}
    BY <1>21 DEF RestartFails, Requests
  <2>4. /\ dids' \in [Issuers -> SUBSET Dids] /\ public' \in [Issuers -> Dids \cup {None}]
        /\ schemas' \in [Issuers -> SUBSET Schemas]
        /\ definitions' \in [Issuers -> SUBSET Definitions]
    BY <1>0, <1>21 DEF RestartFails, Restarts, TypeOK
  <2> QED BY <2>1, <2>2, <2>3, <2>4 DEF TypeOK, ledger, context
<1>22. CASE NextScenario
  <2>1. runs' \in 1..MaxScenarios
    <3>1. runs \in 1..MaxScenarios /\ MaxScenarios \in Nat
      BY LedgerSetupAssumption DEF TypeOK
    <3>2. runs < MaxScenarios /\ runs' = runs + 1 BY <1>22 DEF NextScenario
    <3> QED BY <3>1, <3>2
  <2> QED BY <1>22, <2>1 DEF NextScenario, TypeOK, Requests, wallet, ledger
<1>23. CASE UNCHANGED vars BY <1>23 DEF vars, fixed, wallet, ledger, context, TypeOK
<1> QED
  BY <1>3, <1>4, <1>5, <1>6, <1>7, <1>8, <1>9, <1>10, <1>11, <1>12, <1>13, <1>14, <1>15, <1>16, <1>17, <1>18, <1>19, <1>20, <1>21, <1>22, <1>23
  DEF Next


----------------------------------------------------------------------------
(* What a step does to the wallets and the ledger.                         *)

Quiet == UNCHANGED <<kind, seed, wallet, ledger>>
Effects == Effect /\ UNCHANGED <<kind, seed>>
SchemaPosted ==
  /\ request = "post schema" /\ WritesSchema /\ UNCHANGED <<kind, seed>>
  /\ schemas' = [schemas EXCEPT ![Issuer] = @ \cup {NewSchema}]
DefinitionPosted ==
  /\ request = "post definition" /\ WritesDefinition /\ UNCHANGED <<kind, seed>>
  /\ definitions' = [definitions EXCEPT ![Issuer] = @ \cup {NewDefinition}]
Restarted ==
  /\ kind[Issuer] = "credo" /\ UNCHANGED <<kind, seed, ledger>>
  /\ \E d \in {seed[Issuer], None} : Restarts(d)

LEMMA StepKinds ==
  ASSUME [Next]_vars
  PROVE  Quiet \/ Effects \/ SchemaPosted \/ DefinitionPosted \/ Restarted
<1>1. CASE FoundDid BY <1>1 DEF FoundDid, Asks, fixed, Quiet, wallet, ledger, ThenDefinition
<1>2. CASE NoDid BY <1>2 DEF NoDid, Asks, fixed, Quiet, wallet, ledger, ThenDefinition
<1>3. CASE GetDid BY <1>3 DEF GetDid, Asks, fixed, Quiet, wallet, ledger, ThenDefinition
<1>4. CASE FoundSchema BY <1>4 DEF FoundSchema, Asks, fixed, Quiet, wallet, ledger, ThenDefinition
<1>5. CASE NoSchema BY <1>5 DEF NoSchema, Asks, fixed, Quiet, wallet, ledger, ThenDefinition
<1>6. CASE SchemaRefused BY <1>6 DEF SchemaRefused, Asks, fixed, Quiet, wallet, ledger, ThenDefinition
<1>7. CASE FoundDefinition BY <1>7 DEF FoundDefinition, Asks, fixed, Quiet, wallet, ledger, ThenDefinition
<1>8. CASE NoDefinition BY <1>8 DEF NoDefinition, Asks, fixed, Quiet, wallet, ledger, ThenDefinition
<1>9. CASE DefinitionRefused BY <1>9 DEF DefinitionRefused, Asks, fixed, Quiet, wallet, ledger, ThenDefinition
<1>10. CASE GetSchema BY <1>10 DEF GetSchema, Asks, fixed, Quiet, wallet, ledger, ThenDefinition
<1>11. CASE GetDefinition BY <1>11 DEF GetDefinition, Asks, fixed, Quiet, wallet, ledger, ThenDefinition
<1>12. CASE NextScenario BY <1>12 DEF NextScenario, Asks, fixed, Quiet, wallet, ledger, ThenDefinition
<1>13. CASE UNCHANGED vars BY <1>13 DEF vars, fixed, wallet, ledger, Quiet
<1>14. CASE CreateDid BY <1>14 DEF CreateDid, Asks, fixed, Effects, Effect
<1>15. CASE RegisterDid BY <1>15 DEF RegisterDid, Asks, fixed, Effects, Effect
<1>16. CASE PublishDid BY <1>16 DEF PublishDid, Asks, fixed, Effects, Effect
<1>17. CASE Fault BY <1>17 DEF Fault, Effects
<1>18. CASE PostSchema BY <1>18 DEF PostSchema, Asks, fixed, SchemaPosted
<1>19. CASE PostDefinition BY <1>19 DEF PostDefinition, Asks, fixed, DefinitionPosted
<1>20. CASE RestartCredo BY <1>20 DEF RestartCredo, Asks, fixed, Restarted
<1>21. CASE RestartFails BY <1>21 DEF RestartFails, Restarted
<1> QED
  BY <1>1, <1>2, <1>3, <1>4, <1>5, <1>6, <1>7, <1>8, <1>9, <1>10, <1>11, <1>12, <1>13, <1>14, <1>15, <1>16, <1>17, <1>18, <1>19, <1>20, <1>21
  DEF Next

----------------------------------------------------------------------------
(* Which DIDs are whose.                                                   *)

LEMMA OwnsRestart ==
  ASSUME TypeOK, Owns, Restarted
  PROVE  Owns'
<1>0. Issuer \in Issuers BY ScenarioTypes
<1>1. PICK d \in {seed[Issuer], None} : Restarts(d) BY DEF Restarted
<1>2. UNCHANGED <<kind, seed, ledgerDids>> /\ kind[Issuer] = "credo" BY DEF Restarted, ledger
<1>3. /\ dids'[Issuer] = {d} \ {None} /\ public'[Issuer] = d
      /\ \A i \in Issuers : i # Issuer => dids'[i] = dids[i] /\ public'[i] = public[i]
  BY <1>0, <1>1 DEF Restarts, TypeOK
<1> QED BY <1>0, <1>2, <1>3, LedgerSetupAssumption DEF Owns, TypeOK

LEMMA OwnsEffect ==
  ASSUME TypeOK, Owns, Progress, Effects
  PROVE  Owns'
<1>0. Issuer \in Issuers /\ UNCHANGED <<kind, seed>> BY ScenarioTypes DEF Effects
<1>1. CASE UNCHANGED <<wallet, ledger>> BY <1>0, <1>1 DEF Owns, wallet, ledger
<1>2. CASE request = "create did" /\ Creates
  <2>1. NewDid \in Dids /\ \A i \in Issuers : NewDid \notin dids[i] /\ NewDid # seed[i]
    BY <1>2, FreshDidIsNew DEF Creates
  <2>2. UNCHANGED <<public, ledgerDids>> BY <1>2 DEF Creates, ledger
  <2>3. kind[Issuer] = "acapy" BY <1>2 DEF Progress
  <2>4. /\ dids'[Issuer] = dids[Issuer] \cup {NewDid}
        /\ \A i \in Issuers : i # Issuer => dids'[i] = dids[i]
    BY <1>0, <1>2 DEF Creates, TypeOK
  <2> QED BY <1>0, <2>1, <2>2, <2>3, <2>4 DEF Owns, TypeOK
<1>3. CASE request = "register did" /\ Registers
  BY <1>0, <1>3 DEF Registers, Owns, wallet
<1>4. CASE request = "publish did" /\ Publishes
  <2>1. /\ public'[Issuer] = did
        /\ \A i \in Issuers : i # Issuer => public'[i] = public[i]
    BY <1>0, <1>4 DEF Publishes, TypeOK
  <2>2. kind[Issuer] = "acapy" /\ did \in dids[Issuer] /\ did \in ledgerDids
    BY <1>4 DEF Progress
  <2>3. UNCHANGED <<dids, ledgerDids>> BY <1>4 DEF Publishes, ledger
  <2> QED BY <1>0, <2>1, <2>2, <2>3 DEF Owns
<1>5. CASE request = "post schema" /\ WritesSchema
  BY <1>0, <1>5 DEF WritesSchema, Owns
<1>6. CASE request = "post definition" /\ WritesDefinition
  BY <1>0, <1>6 DEF WritesDefinition, Owns
<1> QED BY <1>1, <1>2, <1>3, <1>4, <1>5, <1>6 DEF Effects, Effect

LEMMA OwnsStep ==
  ASSUME TypeOK, Owns, Progress, [Next]_vars
  PROVE  Owns'
<1>1. CASE Quiet BY <1>1 DEF Quiet, Owns, wallet, ledger
<1>2. CASE SchemaPosted BY <1>2 DEF SchemaPosted, WritesSchema, Owns
<1>3. CASE DefinitionPosted BY <1>3 DEF DefinitionPosted, WritesDefinition, Owns
<1> QED BY <1>1, <1>2, <1>3, StepKinds, OwnsEffect, OwnsRestart

----------------------------------------------------------------------------
(* Whose the objects are.                                                  *)

\* No schema or definition is filed under an issuer that has no public DID.
LEMMA NothingBefore ==
  ASSUME TypeOK, Owns, Filed, NEW i \in Issuers, public[i] = None
  PROVE  schemas[i] = {} /\ definitions[i] = {}
BY LedgerSetupAssumption DEF TypeOK, Filed, Schemas, Definitions

LEMMA FiledSchema ==
  ASSUME TypeOK, Owns, Filed, Progress, request = "post schema", WritesSchema,
         UNCHANGED <<kind, seed>>,
         \/ UNCHANGED schemas
         \/ schemas' = [schemas EXCEPT ![Issuer] = @ \cup {NewSchema}]
  PROVE  Filed'
<1>0. Issuer \in Issuers BY ScenarioTypes
<1>1. /\ ledgerSchemas' = ledgerSchemas \cup {NewSchema}
      /\ UNCHANGED <<public, definitions, ledgerDefinitions>>
  BY DEF WritesSchema
<1>2. NewSchema.did = public[Issuer] /\ public[Issuer] # None
  BY DEF NewSchema, Progress, AfterDid
<1>3. NewSchema.did = Home(Issuer) BY <1>0, <1>2 DEF Owns, Home, TypeOK
<1>4. \A i \in Issuers : Home(i)' = Home(i) BY <1>1 DEF Home
<1>5. \A i \in Issuers : \A s \in schemas'[i] : s \in schemas[i] \/ (i = Issuer /\ s = NewSchema)
  <2>1. CASE UNCHANGED schemas BY <2>1
  <2>2. CASE schemas' = [schemas EXCEPT ![Issuer] = @ \cup {NewSchema}]
    <3>1. schemas \in [Issuers -> SUBSET Schemas] BY DEF TypeOK
    <3>2. \A i \in Issuers : i # Issuer => schemas'[i] = schemas[i] BY <3>1, <2>2
    <3>3. schemas'[Issuer] = schemas[Issuer] \cup {NewSchema} BY <1>0, <3>1, <2>2
    <3> QED BY <3>2, <3>3
  <2> QED BY <2>1, <2>2
<1>6. \A s \in ledgerSchemas' : \E i \in Issuers : s.did = Home(i)'
  BY <1>0, <1>1, <1>3, <1>4 DEF Filed
<1>7. \A i \in Issuers : \A s \in schemas'[i] : s \in ledgerSchemas' /\ s.did = public'[i]
  BY <1>1, <1>2, <1>5 DEF Filed
<1>8. \A i \in Issuers : \A d \in definitions'[i] : d \in ledgerDefinitions' /\ d.did = public'[i]
  BY <1>1 DEF Filed
<1> QED BY <1>6, <1>7, <1>8 DEF Filed

LEMMA FiledDefinition ==
  ASSUME TypeOK, Owns, Filed, Progress, request = "post definition", WritesDefinition,
         UNCHANGED <<kind, seed>>,
         \/ UNCHANGED definitions
         \/ definitions' = [definitions EXCEPT ![Issuer] = @ \cup {NewDefinition}]
  PROVE  Filed'
<1>0. Issuer \in Issuers BY ScenarioTypes
<1>1. /\ ledgerDefinitions' = Others(NewDefinition) \cup {NewDefinition}
      /\ UNCHANGED <<public, schemas, ledgerSchemas>>
  BY DEF WritesDefinition
<1>2. /\ NewDefinition.did = public[Issuer] /\ public[Issuer] # None
      /\ NewDefinition.schema = schema_id /\ NewDefinition.tag = tag
  BY DEF NewDefinition, Progress, AfterDid
<1>3. \A i \in Issuers : Home(i)' = Home(i) BY <1>1 DEF Home
<1>4. \A i \in Issuers : \A d \in definitions'[i] :
        d \in definitions[i] \/ (i = Issuer /\ d = NewDefinition)
  <2>1. CASE UNCHANGED definitions BY <2>1
  <2>2. CASE definitions' = [definitions EXCEPT ![Issuer] = @ \cup {NewDefinition}]
    <3>1. definitions \in [Issuers -> SUBSET Definitions] BY DEF TypeOK
    <3>2. \A i \in Issuers : i # Issuer => definitions'[i] = definitions[i] BY <3>1, <2>2
    <3>3. definitions'[Issuer] = definitions[Issuer] \cup {NewDefinition} BY <1>0, <3>1, <2>2
    <3> QED BY <3>2, <3>3
  <2> QED BY <2>1, <2>2
<1>5. \A i \in Issuers : i # Issuer => public[i] # public[Issuer]
  BY <1>0, <1>2 DEF Owns, TypeOK
<1>6. \A d \in definitions[Issuer] : ~(d.schema = schema_id /\ d.tag = tag)
  BY DEF Progress, CreatedDefinitions
<1>7. \A i \in Issuers : \A d \in definitions[i] : d \in Others(NewDefinition)
  BY <1>2, <1>5, <1>6 DEF Others, Filed
<1>8. \A s \in ledgerSchemas' : \E i \in Issuers : s.did = Home(i)'
  BY <1>1, <1>3 DEF Filed
<1>9. \A i \in Issuers : \A s \in schemas'[i] : s \in ledgerSchemas' /\ s.did = public'[i]
  BY <1>1 DEF Filed
<1>10. \A i \in Issuers : \A d \in definitions'[i] : d \in ledgerDefinitions' /\ d.did = public'[i]
  BY <1>1, <1>2, <1>4, <1>7 DEF Filed
<1> QED BY <1>8, <1>9, <1>10 DEF Filed

LEMMA FiledEffect ==
  ASSUME TypeOK, Owns, Filed, Progress, Effects
  PROVE  Filed'
<1>0. Issuer \in Issuers /\ UNCHANGED <<kind, seed>> BY ScenarioTypes DEF Effects
<1>1. CASE UNCHANGED <<wallet, ledger>> BY <1>0, <1>1 DEF Filed, Home, wallet, ledger
<1>2. CASE request = "create did" /\ Creates
  BY <1>0, <1>2 DEF Creates, Filed, Home, ledger
<1>3. CASE request = "register did" /\ Registers
  BY <1>0, <1>3 DEF Registers, Filed, Home, wallet
<1>4. CASE request = "publish did" /\ Publishes
  <2>1. /\ public'[Issuer] = did
        /\ \A i \in Issuers : i # Issuer => public'[i] = public[i]
    BY <1>0, <1>4 DEF Publishes, TypeOK
  <2>2. kind[Issuer] = "acapy" /\ public[Issuer] = None BY <1>4 DEF Progress
  <2>3. schemas[Issuer] = {} /\ definitions[Issuer] = {} BY <1>0, <2>2, NothingBefore
  <2>4. UNCHANGED <<schemas, definitions, ledgerSchemas, ledgerDefinitions>>
    BY <1>4 DEF Publishes, ledger
  <2>5. \A s \in ledgerSchemas : s.did # None
    BY LedgerSetupAssumption DEF TypeOK, Schemas
  <2>6. \A s \in ledgerSchemas : \E i \in Issuers : s.did = Home(i)'
    BY <1>0, <2>1, <2>2, <2>5 DEF Filed, Home
  <2> QED BY <1>0, <2>1, <2>3, <2>4, <2>6 DEF Filed
<1>5. CASE request = "post schema" /\ WritesSchema /\ UNCHANGED schemas
  BY <1>5, <1>0, FiledSchema
<1>6. CASE request = "post definition" /\ WritesDefinition /\ UNCHANGED definitions
  BY <1>6, <1>0, FiledDefinition
<1> QED BY <1>1, <1>2, <1>3, <1>4, <1>5, <1>6 DEF Effects, Effect

LEMMA FiledRestart ==
  ASSUME TypeOK, Owns, Filed, Restarted
  PROVE  Filed'
<1>0. Issuer \in Issuers BY ScenarioTypes
<1>1. PICK d \in {seed[Issuer], None} : Restarts(d) BY DEF Restarted
<1>2. UNCHANGED <<kind, seed, ledgerSchemas, ledgerDefinitions>> /\ kind[Issuer] = "credo"
  BY DEF Restarted, ledger
<1>3. /\ schemas'[Issuer] = {} /\ definitions'[Issuer] = {}
      /\ \A i \in Issuers : i # Issuer => /\ schemas'[i] = schemas[i]
                                          /\ definitions'[i] = definitions[i]
                                          /\ public'[i] = public[i]
  BY <1>0, <1>1 DEF Restarts, TypeOK
<1>4. \A i \in Issuers : Home(i)' = Home(i) BY <1>2, <1>3 DEF Home
<1> QED BY <1>2, <1>3, <1>4 DEF Filed

LEMMA FiledStep ==
  ASSUME TypeOK, Owns, Filed, Progress, [Next]_vars
  PROVE  Filed'
<1>1. CASE Quiet BY <1>1 DEF Quiet, Filed, Home, wallet, ledger
<1>2. CASE SchemaPosted BY <1>2, FiledSchema DEF SchemaPosted
<1>3. CASE DefinitionPosted BY <1>3, FiledDefinition DEF DefinitionPosted
<1> QED BY <1>1, <1>2, <1>3, StepKinds, FiledEffect, FiledRestart


----------------------------------------------------------------------------
(* What has been achieved.                                                 *)

LEMMA ProgressStep ==
  ASSUME TypeOK, Owns, Filed, Progress, Verdicts, [Next]_vars
  PROVE  Progress'
<1>0. Issuer \in Issuers BY ScenarioTypes
<1>1. CASE FoundDid
  BY <1>0, <1>1
  DEF FoundDid, Reads, HasPublicDid, Asks, Then, Fail, fixed, wallet, ledger, context,
      Issuer, Progress, AfterDid, AfterSchema, AfterDefinition, HasSchema, HasDefinition,
      CreatedDefinitions, TypeOK
<1>2. CASE NoDid
  BY <1>0, <1>2
  DEF NoDid, HasPublicDid, Asks, Then, Fail, fixed, wallet, ledger, context, Issuer,
      Progress, AfterDid, AfterSchema, AfterDefinition, HasSchema, HasDefinition,
      CreatedDefinitions, TypeOK
<1>3. CASE CreateDid
  BY <1>0, <1>3, FreshDidIsNew
  DEF CreateDid, Creates, Asks, Then, Fail, fixed, wallet, ledger, context, Issuer, Progress,
      AfterDid, AfterSchema, AfterDefinition, HasSchema, HasDefinition, CreatedDefinitions,
      TypeOK
<1>4. CASE RegisterDid
  BY <1>0, <1>4
  DEF RegisterDid, Registers, Asks, Then, Fail, fixed, wallet, ledger, context, Issuer,
      Progress, AfterDid, AfterSchema, AfterDefinition, HasSchema, HasDefinition,
      CreatedDefinitions, TypeOK
<1>5. CASE PublishDid
  <2>1. did \in dids[Issuer] /\ kind[Issuer] = "acapy"
    BY <1>5 DEF PublishDid, Asks, Progress
  <2>2. did # None BY <1>0, <2>1, LedgerSetupAssumption DEF TypeOK
  <2>3. public'[Issuer] = did BY <1>0, <1>5 DEF PublishDid, Publishes, TypeOK
  <2>4. request' = "get did" /\ UNCHANGED fixed BY <1>5 DEF PublishDid, Then, Asks
  <2> QED BY <2>1, <2>2, <2>3, <2>4
      DEF Progress, AfterDid, AfterSchema, AfterDefinition, fixed, Issuer
<1>6. CASE GetDid
  BY <1>0, <1>6
  DEF GetDid, Reads, Asks, Then, Fail, fixed, wallet, ledger, context, Issuer, Progress,
      AfterDid, AfterSchema, AfterDefinition, HasSchema, HasDefinition, CreatedDefinitions,
      TypeOK
<1>7. CASE FoundSchema
  <2>1. PICK s \in CreatedSchemas : ThenDefinition(s) BY <1>7 DEF FoundSchema
  <2>2. s \in ledgerSchemas /\ s.did = public[Issuer] /\ s.name = scenario.name /\ s \in Schemas
    BY <1>0 DEF CreatedSchemas, Filed, TypeOK
  <2>3. issuer_did = public[Issuer] /\ issuer_did # None
    BY <1>7 DEF FoundSchema, Asks, Progress, AfterDid
  <2>4. /\ schema_id' = s /\ request' = "find definition"
        /\ UNCHANGED <<fixed, wallet, ledger, issuer_did>>
    BY <1>7, <2>1 DEF FoundSchema, ThenDefinition, Then, Asks
  <2> QED BY <2>2, <2>3, <2>4
      DEF Progress, AfterDid, AfterSchema, AfterDefinition, HasSchema, fixed, wallet, ledger, Issuer
<1>8. CASE NoSchema
  BY <1>0, <1>8
  DEF NoSchema, Asks, Then, Fail, fixed, wallet, ledger, context, Issuer, Progress, AfterDid,
      AfterSchema, AfterDefinition, HasSchema, HasDefinition, CreatedDefinitions, TypeOK
<1>9. CASE PostSchema
  BY <1>0, <1>9, NewSchemaType, WritableFromProgress
  DEF PostSchema, ThenDefinition, WritesSchema, NewSchema, Asks, Then, Fail, fixed, wallet,
      ledger, context, Issuer, Progress, AfterDid, AfterSchema, AfterDefinition, HasSchema,
      HasDefinition, CreatedDefinitions, TypeOK
<1>10. CASE SchemaRefused
  BY <1>0, <1>10
  DEF SchemaRefused, Asks, Then, Fail, fixed, wallet, ledger, context, Issuer, Progress,
      AfterDid, AfterSchema, AfterDefinition, HasSchema, HasDefinition, CreatedDefinitions,
      TypeOK
<1>11. CASE FoundDefinition
  <2>1. definition_id' \in CreatedDefinitions /\ request' = "get schema"
    BY <1>11 DEF FoundDefinition, Then
  <2>2. /\ definition_id' \in ledgerDefinitions /\ definition_id' \in definitions[Issuer]
        /\ definition_id'.did = public[Issuer]
        /\ definition_id'.schema = schema_id /\ definition_id'.tag = tag
    BY <1>0, <2>1 DEF CreatedDefinitions, Filed
  <2>3. issuer_did = public[Issuer] /\ issuer_did # None /\ HasSchema
    BY <1>11 DEF FoundDefinition, Asks, Progress, AfterDid, AfterSchema
  <2>4. UNCHANGED <<fixed, wallet, ledger, issuer_did, schema_id, tag>>
    BY <1>11 DEF FoundDefinition, Asks
  <2> QED BY <2>1, <2>2, <2>3, <2>4
      DEF Progress, AfterDid, AfterSchema, AfterDefinition, HasSchema, HasDefinition,
          fixed, wallet, ledger, Issuer
<1>12. CASE NoDefinition
  BY <1>0, <1>12
  DEF NoDefinition, Asks, Then, Fail, fixed, wallet, ledger, context, Issuer, Progress,
      AfterDid, AfterSchema, AfterDefinition, HasSchema, HasDefinition, CreatedDefinitions,
      TypeOK
<1>13. CASE PostDefinition
  BY <1>0, <1>13, NewDefinitionType, WritableFromProgress
  DEF PostDefinition, WritesDefinition, NewDefinition, Asks, Then, Fail, fixed, wallet,
      ledger, context, Issuer, Progress, AfterDid, AfterSchema, AfterDefinition, HasSchema,
      HasDefinition, CreatedDefinitions, TypeOK
<1>14. CASE DefinitionRefused
  BY <1>0, <1>14
  DEF DefinitionRefused, Asks, Then, Fail, fixed, wallet, ledger, context, Issuer, Progress,
      AfterDid, AfterSchema, AfterDefinition, HasSchema, HasDefinition, CreatedDefinitions,
      TypeOK
<1>15. CASE GetSchema
  BY <1>0, <1>15
  DEF GetSchema, Asks, Then, Fail, fixed, wallet, ledger, context, Issuer, Progress,
      AfterDid, AfterSchema, AfterDefinition, HasSchema, HasDefinition, CreatedDefinitions,
      TypeOK
<1>16. CASE GetDefinition
  BY <1>0, <1>16
  DEF GetDefinition, Asks, Then, Fail, fixed, wallet, ledger, context, Issuer, Progress,
      AfterDid, AfterSchema, AfterDefinition, HasSchema, HasDefinition, CreatedDefinitions,
      TypeOK
<1>17. CASE Fault
  BY <1>0, <1>17
  DEF Fault, OnError, Happens, Effect, Publishes, Asks, Then, Fail, fixed, wallet, ledger,
      context, Issuer, Progress, AfterDid, AfterSchema, AfterDefinition, HasSchema,
      HasDefinition, CreatedDefinitions, TypeOK
<1>18. CASE RestartCredo
  BY <1>0, <1>18
  DEF RestartCredo, Restarts, Asks, Then, Fail, fixed, wallet, ledger, context, Issuer,
      Progress, AfterDid, AfterSchema, AfterDefinition, HasSchema, HasDefinition,
      CreatedDefinitions, TypeOK
<1>19. CASE RestartFails
  BY <1>0, <1>19
  DEF RestartFails, Restarts, Happens, Asks, Then, Fail, fixed, wallet, ledger, context,
      Issuer, Progress, AfterDid, AfterSchema, AfterDefinition, HasSchema, HasDefinition,
      CreatedDefinitions, TypeOK
<1>20. CASE NextScenario
  BY <1>0, <1>20
  DEF NextScenario, Asks, Then, Fail, fixed, wallet, ledger, context, Issuer, Progress,
      AfterDid, AfterSchema, AfterDefinition, HasSchema, HasDefinition, CreatedDefinitions,
      TypeOK
<1>21. CASE UNCHANGED vars
  BY <1>0, <1>21
  DEF vars, Asks, Then, Fail, fixed, wallet, ledger, context, Issuer, Progress, AfterDid,
      AfterSchema, AfterDefinition, HasSchema, HasDefinition, CreatedDefinitions, TypeOK
<1> QED
  BY <1>1, <1>2, <1>3, <1>4, <1>5, <1>6, <1>7, <1>8, <1>9, <1>10, <1>11, <1>12, <1>13, <1>14, <1>15, <1>16, <1>17, <1>18, <1>19, <1>20, <1>21
  DEF Next

LEMMA VerdictStep ==
  ASSUME TypeOK, Owns, Filed, Progress, Verdicts, [Next]_vars
  PROVE  Verdicts'
<1>0. Issuer \in Issuers BY ScenarioTypes
<1>1. CASE FoundDid
  BY <1>0, <1>1
  DEF FoundDid, Reads, HasPublicDid, Asks, Then, Fail, fixed, wallet, ledger, context,
      Issuer, Verdicts, CleanRetry, SchemaLost, DefinitionLost, HasSchema, HasDefinition,
      Progress, AfterDid, AfterSchema, AfterDefinition
<1>2. CASE NoDid
  BY <1>0, <1>2
  DEF TypeOK, NoDid, HasPublicDid, Asks, Then, Fail, fixed, wallet, ledger, context, Issuer,
      Verdicts, CleanRetry, SchemaLost, DefinitionLost, HasSchema, HasDefinition, Progress,
      AfterDid, AfterSchema, AfterDefinition
<1>3. CASE CreateDid
  BY <1>0, <1>3, FreshDidIsNew
  DEF CreateDid, Creates, Asks, Then, Fail, fixed, wallet, ledger, context, Issuer, Verdicts,
      CleanRetry, SchemaLost, DefinitionLost, HasSchema, HasDefinition, Progress, AfterDid,
      AfterSchema, AfterDefinition
<1>4. CASE RegisterDid
  BY <1>0, <1>4
  DEF RegisterDid, Registers, Asks, Then, Fail, fixed, wallet, ledger, context, Issuer,
      Verdicts, CleanRetry, SchemaLost, DefinitionLost, HasSchema, HasDefinition, Progress,
      AfterDid, AfterSchema, AfterDefinition
<1>5. CASE PublishDid
  BY <1>0, <1>5
  DEF PublishDid, Publishes, Asks, Then, Fail, fixed, wallet, ledger, context, Issuer,
      Verdicts, CleanRetry, SchemaLost, DefinitionLost, HasSchema, HasDefinition, Progress,
      AfterDid, AfterSchema, AfterDefinition
<1>6. CASE GetDid
  BY <1>0, <1>6
  DEF GetDid, Reads, Asks, Then, Fail, fixed, wallet, ledger, context, Issuer, Verdicts,
      CleanRetry, SchemaLost, DefinitionLost, HasSchema, HasDefinition, Progress, AfterDid,
      AfterSchema, AfterDefinition
<1>7. CASE FoundSchema
  BY <1>0, <1>7
  DEF FoundSchema, ThenDefinition, CreatedSchemas, Asks, Then, Fail, fixed, wallet, ledger,
      context, Issuer, Verdicts, CleanRetry, SchemaLost, DefinitionLost, HasSchema,
      HasDefinition, Progress, AfterDid, AfterSchema, AfterDefinition
<1>8. CASE NoSchema
  BY <1>0, <1>8
  DEF NoSchema, Asks, Then, Fail, fixed, wallet, ledger, context, Issuer, Verdicts,
      CleanRetry, SchemaLost, DefinitionLost, HasSchema, HasDefinition, Progress, AfterDid,
      AfterSchema, AfterDefinition
<1>9. CASE PostSchema
  BY <1>0, <1>9, NewSchemaType, WritableFromProgress
  DEF PostSchema, ThenDefinition, WritesSchema, NewSchema, Asks, Then, Fail, fixed, wallet,
      ledger, context, Issuer, Verdicts, CleanRetry, SchemaLost, DefinitionLost, HasSchema,
      HasDefinition, Progress, AfterDid, AfterSchema, AfterDefinition
<1>10. CASE SchemaRefused
  BY <1>0, <1>10
  DEF SchemaRefused, Asks, Then, Fail, fixed, wallet, ledger, context, Issuer, Verdicts,
      CleanRetry, SchemaLost, DefinitionLost, HasSchema, HasDefinition, Progress, AfterDid,
      AfterSchema, AfterDefinition
<1>11. CASE FoundDefinition
  BY <1>0, <1>11
  DEF FoundDefinition, Asks, Then, Fail, fixed, wallet, ledger, context, Issuer, Verdicts,
      CleanRetry, SchemaLost, DefinitionLost, HasSchema, HasDefinition, Progress, AfterDid,
      AfterSchema, AfterDefinition
<1>12. CASE NoDefinition
  BY <1>0, <1>12
  DEF NoDefinition, Asks, Then, Fail, fixed, wallet, ledger, context, Issuer, Verdicts,
      CleanRetry, SchemaLost, DefinitionLost, HasSchema, HasDefinition, Progress, AfterDid,
      AfterSchema, AfterDefinition
<1>13. CASE PostDefinition
  BY <1>0, <1>13, NewDefinitionType, WritableFromProgress
  DEF PostDefinition, WritesDefinition, NewDefinition, Asks, Then, Fail, fixed, wallet,
      ledger, context, Issuer, Verdicts, CleanRetry, SchemaLost, DefinitionLost, HasSchema,
      HasDefinition, Progress, AfterDid, AfterSchema, AfterDefinition
<1>14. CASE DefinitionRefused
  BY <1>0, <1>14
  DEF DefinitionRefused, Asks, Then, Fail, fixed, wallet, ledger, context, Issuer, Verdicts,
      CleanRetry, SchemaLost, DefinitionLost, HasSchema, HasDefinition, Progress, AfterDid,
      AfterSchema, AfterDefinition
<1>15. CASE GetSchema
  BY <1>0, <1>15
  DEF GetSchema, Asks, Then, Fail, fixed, wallet, ledger, context, Issuer, Verdicts,
      CleanRetry, SchemaLost, DefinitionLost, HasSchema, HasDefinition, Progress, AfterDid,
      AfterSchema, AfterDefinition
<1>16. CASE GetDefinition
  BY <1>0, <1>16
  DEF GetDefinition, Asks, Then, Fail, fixed, wallet, ledger, context, Issuer, Verdicts,
      CleanRetry, SchemaLost, DefinitionLost, HasSchema, HasDefinition, Progress, AfterDid,
      AfterSchema, AfterDefinition
<1>17. CASE Fault
  BY <1>0, <1>17
  DEF Fault, OnError, Happens, Effect, Publishes, Asks, Then, Fail, fixed, wallet, ledger,
      context, Issuer, Verdicts, CleanRetry, SchemaLost, DefinitionLost, HasSchema,
      HasDefinition, Progress, AfterDid, AfterSchema, AfterDefinition
<1>18. CASE RestartCredo
  BY <1>0, <1>18
  DEF RestartCredo, Restarts, Asks, Then, Fail, fixed, wallet, ledger, context, Issuer,
      Verdicts, CleanRetry, SchemaLost, DefinitionLost, HasSchema, HasDefinition, Progress,
      AfterDid, AfterSchema, AfterDefinition
<1>19. CASE RestartFails
  BY <1>0, <1>19
  DEF RestartFails, Restarts, Happens, Asks, Then, Fail, fixed, wallet, ledger, context,
      Issuer, Verdicts, CleanRetry, SchemaLost, DefinitionLost, HasSchema, HasDefinition,
      Progress, AfterDid, AfterSchema, AfterDefinition
<1>20. CASE NextScenario
  BY <1>0, <1>20
  DEF NextScenario, Asks, Then, Fail, fixed, wallet, ledger, context, Issuer, Verdicts,
      CleanRetry, SchemaLost, DefinitionLost, HasSchema, HasDefinition, Progress, AfterDid,
      AfterSchema, AfterDefinition
<1>21. CASE UNCHANGED vars
  BY <1>0, <1>21
  DEF vars, Asks, Then, Fail, fixed, wallet, ledger, context, Issuer, Verdicts, CleanRetry,
      SchemaLost, DefinitionLost, HasSchema, HasDefinition, Progress, AfterDid, AfterSchema,
      AfterDefinition
<1> QED
  BY <1>1, <1>2, <1>3, <1>4, <1>5, <1>6, <1>7, <1>8, <1>9, <1>10, <1>11, <1>12, <1>13, <1>14, <1>15, <1>16, <1>17, <1>18, <1>19, <1>20, <1>21
  DEF Next

LEMMA MadeStep ==
  ASSUME TypeOK, Progress, Made, [Next]_vars
  PROVE  Made'
<1>0. Issuer \in Issuers BY ScenarioTypes
<1>1. CASE FoundDid
  BY <1>0, <1>1
  DEF FoundDid, Reads, HasPublicDid, Asks, Then, Fail, fixed, wallet, ledger, context,
      Issuer, Made, TypeOK
<1>2. CASE NoDid
  BY <1>0, <1>2
  DEF NoDid, HasPublicDid, Asks, Then, Fail, fixed, wallet, ledger, context, Issuer, Made,
      TypeOK
<1>3. CASE CreateDid
  BY <1>0, <1>3, FreshDidIsNew
  DEF CreateDid, Creates, Asks, Then, Fail, fixed, wallet, ledger, context, Issuer, Made,
      TypeOK
<1>4. CASE RegisterDid
  BY <1>0, <1>4
  DEF RegisterDid, Registers, Asks, Then, Fail, fixed, wallet, ledger, context, Issuer, Made,
      TypeOK
<1>5. CASE PublishDid
  BY <1>0, <1>5
  DEF PublishDid, Publishes, Asks, Then, Fail, fixed, wallet, ledger, context, Issuer, Made,
      TypeOK
<1>6. CASE GetDid
  BY <1>0, <1>6
  DEF GetDid, Reads, Asks, Then, Fail, fixed, wallet, ledger, context, Issuer, Made, TypeOK
<1>7. CASE FoundSchema
  BY <1>0, <1>7
  DEF FoundSchema, ThenDefinition, CreatedSchemas, Asks, Then, Fail, fixed, wallet, ledger,
      context, Issuer, Made, TypeOK
<1>8. CASE NoSchema
  BY <1>0, <1>8
  DEF NoSchema, Asks, Then, Fail, fixed, wallet, ledger, context, Issuer, Made, TypeOK
<1>9. CASE PostSchema
  BY <1>0, <1>9, NewSchemaType, WritableFromProgress
  DEF PostSchema, ThenDefinition, WritesSchema, NewSchema, Asks, Then, Fail, fixed, wallet,
      ledger, context, Issuer, Made, TypeOK
<1>10. CASE SchemaRefused
  BY <1>0, <1>10
  DEF SchemaRefused, Asks, Then, Fail, fixed, wallet, ledger, context, Issuer, Made, TypeOK
<1>11. CASE FoundDefinition
  BY <1>0, <1>11
  DEF FoundDefinition, Asks, Then, Fail, fixed, wallet, ledger, context, Issuer, Made,
      TypeOK
<1>12. CASE NoDefinition
  BY <1>0, <1>12
  DEF NoDefinition, Asks, Then, Fail, fixed, wallet, ledger, context, Issuer, Made, TypeOK
<1>13. CASE PostDefinition
  <2>1. made' = made \cup {NewDefinition} /\ UNCHANGED fixed
    BY <1>13 DEF PostDefinition, Asks
  <2>2. kind[Issuer] \in {"acapy", "credo"} /\ scenario.revocable \in BOOLEAN
    BY <1>0, ScenarioTypes DEF TypeOK
  <2>3. NewDefinition.revocable = (scenario.revocable /\ kind[Issuer] = "acapy")
    BY DEF NewDefinition
  <2>4. NewDefinition.revocable = scenario.revocable \/ kind[Issuer] = "credo"
    BY <2>2, <2>3
  <2> QED BY <2>1, <2>4 DEF Made, fixed, Issuer
<1>14. CASE DefinitionRefused
  BY <1>0, <1>14
  DEF DefinitionRefused, Asks, Then, Fail, fixed, wallet, ledger, context, Issuer, Made,
      TypeOK
<1>15. CASE GetSchema
  BY <1>0, <1>15
  DEF GetSchema, Asks, Then, Fail, fixed, wallet, ledger, context, Issuer, Made, TypeOK
<1>16. CASE GetDefinition
  BY <1>0, <1>16
  DEF GetDefinition, Asks, Then, Fail, fixed, wallet, ledger, context, Issuer, Made, TypeOK
<1>17. CASE Fault
  BY <1>0, <1>17
  DEF Fault, OnError, Happens, Effect, Publishes, Asks, Then, Fail, fixed, wallet, ledger,
      context, Issuer, Made, TypeOK
<1>18. CASE RestartCredo
  BY <1>0, <1>18
  DEF RestartCredo, Restarts, Asks, Then, Fail, fixed, wallet, ledger, context, Issuer, Made,
      TypeOK
<1>19. CASE RestartFails
  BY <1>0, <1>19
  DEF RestartFails, Restarts, Happens, Asks, Then, Fail, fixed, wallet, ledger, context,
      Issuer, Made, TypeOK
<1>20. CASE NextScenario
  BY <1>0, <1>20
  DEF NextScenario, Asks, Then, Fail, fixed, wallet, ledger, context, Issuer, Made, TypeOK
<1>21. CASE UNCHANGED vars
  BY <1>0, <1>21
  DEF vars, Asks, Then, Fail, fixed, wallet, ledger, context, Issuer, Made, TypeOK
<1> QED
  BY <1>1, <1>2, <1>3, <1>4, <1>5, <1>6, <1>7, <1>8, <1>9, <1>10, <1>11, <1>12, <1>13, <1>14, <1>15, <1>16, <1>17, <1>18, <1>19, <1>20, <1>21
  DEF Next

----------------------------------------------------------------------------
(* The theorems.                                                           *)

LEMMA InvInit ==
  ASSUME Init
  PROVE  Inv
<1>1. TypeOK
  <2>1. kind \in [Issuers -> {"acapy", "credo"}] /\ seed \in [Issuers -> Dids \cup {None}]
    BY DEF Init
  <2>2. dids \in [Issuers -> SUBSET Dids] /\ public \in [Issuers -> Dids \cup {None}]
    BY <2>1 DEF Init
  <2>3. /\ schemas \in [Issuers -> SUBSET Schemas]
        /\ definitions \in [Issuers -> SUBSET Definitions]
    BY DEF Init
  <2>4. ledgerDids \subseteq Dids BY <2>1 DEF Init
  <2>5. runs \in 1..MaxScenarios /\ faults \in 0..MaxFaults
    <3>1. MaxScenarios \in Nat \ {0} /\ MaxFaults \in Nat BY LedgerSetupAssumption
    <3>2. runs = 1 /\ faults = 0 BY DEF Init
    <3> QED BY <3>1, <3>2
  <2> QED BY <2>1, <2>2, <2>3, <2>4, <2>5 DEF Init, TypeOK, Requests
<1>2. Owns
  <2>1. ASSUME NEW i \in Issuers
        PROVE  /\ kind[i] = "credo" => /\ seed[i] # None /\ seed[i] \in ledgerDids
                                       /\ dids[i] \subseteq {seed[i]} /\ public[i] \in {seed[i], None}
               /\ kind[i] = "acapy" => seed[i] = None
               /\ public[i] # None => public[i] \in dids[i] /\ public[i] \in ledgerDids
    BY DEF Init
  <2>2. ASSUME NEW i \in Issuers, NEW j \in Issuers, NEW d \in Dids, i # j
        PROVE  ~(d \in dids[i] \cup {seed[i]} /\ d \in dids[j] \cup {seed[j]})
    BY <2>2, LedgerSetupAssumption DEF Init
  <2> QED BY <2>1, <2>2 DEF Owns
<1>3. Filed BY DEF Init, Filed
<1>4. Progress BY DEF Init, Progress, AfterDid, AfterSchema, AfterDefinition
<1>5. Verdicts BY DEF Init, Verdicts, CleanRetry
<1>6. Made BY DEF Init, Made
<1> QED BY <1>1, <1>2, <1>3, <1>4, <1>5, <1>6 DEF Inv

LEMMA Invariance == Spec => []Inv
<1>1. Inv /\ [Next]_vars => Inv'
  BY TypeStep, OwnsStep, FiledStep, ProgressStep, VerdictStep, MadeStep DEF Inv
<1> QED BY <1>1, InvInit, PTL DEF Spec

\* Every reachable state has the types of TypeOK: in particular a schema or definition is
\* only ever written under a DID, never under the null of an agent without a public one.
THEOREM SetupTypes == Spec => []TypeOK
<1>1. Inv => TypeOK BY DEF Inv
<1> QED BY <1>1, Invariance, PTL

\* What passed set-up can be issued from, for any number of scenarios, failed requests and
\* restarts before it.
THEOREM PassedIsReady == Spec => []PassMeansReady
<1>1. Inv => PassMeansReady
  <2> SUFFICES ASSUME Inv, verdict = "passed" PROVE PassMeansReady BY DEF PassMeansReady
  <2>0. Issuer \in Issuers BY ScenarioTypes DEF Inv
  <2>1. issuer_did = public[Issuer] /\ issuer_did # None /\ HasSchema /\ HasDefinition
    BY DEF Inv, Verdicts
  <2>2. issuer_did \in ledgerDids BY <2>0, <2>1 DEF Inv, Owns
  <2>3. definition_id \in made =>
          definition_id.revocable = scenario.revocable \/ kind[Issuer] = "credo"
    BY DEF Inv, Made
  <2> QED BY <2>1, <2>2, <2>3 DEF PassMeansReady, HasSchema, HasDefinition
<1> QED BY <1>1, Invariance, PTL

\* Whatever the attempts before it left half done, an attempt fails only through a failed
\* request, a start that failed, or an object that the ledger has and the wallet has not.
THEOREM RetriesAreClean == Spec => []CleanRetry
<1>1. Inv => CleanRetry BY DEF Inv, Verdicts
<1> QED BY <1>1, Invariance, PTL

\* No issuer has two schemas of one name on the ledger, because none changes the DID it
\* writes under.
THEOREM SchemasOnce == Spec => []OneSchema
<1>1. Inv => OneSchema
  <2> SUFFICES ASSUME Inv, NEW i \in Issuers, NEW s \in ledgerSchemas, NEW t \in ledgerSchemas,
                      s.did \in dids[i] \cup {seed[i]}, t.did \in dids[i] \cup {seed[i]},
                      s.name = t.name
               PROVE  s = t
    BY DEF OneSchema
  <2>1. s \in Schemas /\ t \in Schemas BY DEF Inv, TypeOK
  <2>2. ASSUME NEW u \in ledgerSchemas, u \in Schemas, u.did \in dids[i] \cup {seed[i]}
        PROVE  u.did = Home(i)
    <3>1. PICK j \in Issuers : u.did = Home(j) BY DEF Inv, Filed
    <3>2. u.did \in Dids /\ u.did # None BY <2>2, LedgerSetupAssumption DEF Schemas
    <3>3. u.did \in dids[j] \cup {seed[j]} BY <3>1, <3>2 DEF Home, Inv, Owns
    <3> QED BY <2>2, <3>1, <3>2, <3>3 DEF Inv, Owns
  <2>3. s.did = t.did BY <2>1, <2>2
  <2> QED BY <2>1, <2>3 DEF Schemas
<1> QED BY <1>1, Invariance, PTL
=============================================================================
