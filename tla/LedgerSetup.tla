----------------------------- MODULE LedgerSetup -----------------------------
(***************************************************************************)
(* "has an existing schema and credential definition": the steps before a  *)
(* credential is issued, in which the harness asks a backchannel (ACA-Py   *)
(* or Credo-TS) for a public DID, a schema, a credential definition, and   *)
(* then for the latter two once more.                                      *)
(*                                                                         *)
(* A backchannel serves each of these with several requests, to its agent  *)
(* and to the ledger (both external).  A request may fail with or without  *)
(* having had its effect, which ends the scenario; the next attempt meets  *)
(* whatever the requests before it have left behind.  A scenario may begin *)
(* with a restart of the agent, which leaves one of Credo with an empty    *)
(* wallet and its old DID.                                                 *)
(***************************************************************************)
EXTENDS Naturals

CONSTANTS
  Issuers, Names,   \* Names: of schemas
  Dids, Tags,
  None,
  Scenarios,        \* [issuer, name, revocable]
  MaxScenarios,     \* bound on the scenarios run, retries included
  MaxFaults         \* bound on the requests that fail

Schemas == [did : Dids, name : Names]
Definitions == [did : Dids, schema : Schemas, tag : Tags, revocable : BOOLEAN]

ASSUME LedgerSetupAssumption ==
  /\ None \notin Dids \cup Schemas \cup Definitions
  /\ Scenarios \subseteq [issuer : Issuers, name : Names, revocable : BOOLEAN]
  /\ MaxScenarios \in Nat \ {0} /\ MaxFaults \in Nat

VARIABLES
  kind,      \* [Issuers -> {"acapy", "credo"}]
  seed,      \* [Issuers -> the DID a Credo agent is started with, or None]
  dids, public, schemas, definitions,         \* [Issuers -> ...]: what a wallet knows
  ledgerDids, ledgerSchemas, ledgerDefinitions,
  scenario,
  issuer_did, schema_id, definition_id,       \* of the context, for the scenario's schema
  tag,       \* of the template of the credential definition
  did,       \* the DID being made public
  request,   \* the request about to be sent
  verdict,
  runs, faults,
  faulted,   \* history: a request of this scenario failed
  made       \* history: the definitions made in this scenario

wallet  == <<dids, public, schemas, definitions>>
ledger  == <<ledgerDids, ledgerSchemas, ledgerDefinitions>>
context == <<issuer_did, schema_id, definition_id, tag>>
fixed   == <<kind, seed, scenario, runs, faults>>
vars == <<fixed, wallet, ledger, context, did, request, verdict, faulted, made>>

Requests ==
  {"find did", "create did", "register did", "publish did", "get did",
   "find schema", "post schema", "find definition", "post definition",
   "get schema", "get definition", "none"}

Issuer == scenario.issuer

Asks(r) == verdict = "running" /\ request = r /\ UNCHANGED fixed

\* The step, or the backchannel within it, goes on to request r.
Then(r) == request' = r /\ UNCHANGED <<verdict, faulted>>

\* A status other than 200, or an exception: the step's assertion fails.
Fail == verdict' = "failed" /\ request' = "none" /\ UNCHANGED faulted

----------------------------------------------------------------------------
(* "has a public did".                                                     *)

\* The step takes the DID from the answer, which may be null.
Reads(d) ==
  /\ issuer_did' = d
  /\ IF d = None THEN Fail ELSE Then("find schema")

\* Mutant: an agent with some DID is taken for one with a public DID.
HasDid == dids[Issuer] # {}

\* Mutant: ACA-Py does not look whether it has one.
KnownToCredo == kind[Issuer] = "credo" /\ public[Issuer] # None

HasPublicDid == public[Issuer] # None

FoundDid ==
  /\ Asks("find did") /\ HasPublicDid
  /\ Reads(public[Issuer])
  /\ UNCHANGED <<wallet, ledger, schema_id, definition_id, tag, did, made>>

\* ACA-Py makes one; Credo answers {}, in which the step finds no "did".
NoDid ==
  /\ Asks("find did") /\ ~HasPublicDid
  /\ IF kind[Issuer] = "acapy" THEN Then("create did") ELSE Fail
  /\ UNCHANGED <<wallet, ledger, context, did, made>>

\* DIDs are interchangeable: any that nobody has will do.  (That some are left is a bound
\* of the model.)
FreshDids == {d \in Dids : \A i \in Issuers : d \notin dids[i] /\ d # seed[i]}
NewDid == CHOOSE d \in FreshDids : TRUE

Creates ==
  /\ FreshDids # {}
  /\ dids' = [dids EXCEPT ![Issuer] = @ \cup {NewDid}]
  /\ UNCHANGED <<public, schemas, definitions, ledger>>

CreateDid ==
  /\ Asks("create did")
  /\ Creates /\ did' = NewDid
  /\ Then("register did")
  /\ UNCHANGED <<context, made>>

Registers ==
  /\ ledgerDids' = ledgerDids \cup {did}
  /\ UNCHANGED <<wallet, ledgerSchemas, ledgerDefinitions>>

RegisterDid ==
  /\ Asks("register did")
  /\ Registers
  /\ Then("publish did")
  /\ UNCHANGED <<context, did, made>>

Publishes ==
  /\ public' = [public EXCEPT ![Issuer] = did]
  /\ UNCHANGED <<dids, schemas, definitions, ledger>>

PublishDid ==
  /\ Asks("publish did")
  /\ Publishes
  /\ Then("get did")
  /\ UNCHANGED <<context, did, made>>

\* The status of the request before is not looked at: the DID may not be public after all.
GetDid ==
  /\ Asks("get did")
  /\ Reads(public[Issuer])
  /\ UNCHANGED <<wallet, ledger, schema_id, definition_id, tag, did, made>>

----------------------------------------------------------------------------
(* "creates a new schema".                                                 *)

\* Those of the name the agent has created, under whatever DID.
CreatedSchemas == {s \in schemas[Issuer] : s.name = scenario.name}

\* "creates a new credential definition" draws its tag.
ThenDefinition(s) ==
  /\ schema_id' = s
  /\ tag' \in Tags
  /\ Then("find definition")
  /\ UNCHANGED <<issuer_did, definition_id>>

\* The one that comes first is taken.
FoundSchema ==
  /\ Asks("find schema")
  /\ \E s \in CreatedSchemas : ThenDefinition(s)
  /\ UNCHANGED <<wallet, ledger, did, made>>

NoSchema ==
  /\ Asks("find schema") /\ CreatedSchemas = {}
  /\ Then("post schema")
  /\ UNCHANGED <<wallet, ledger, context, did, made>>

\* The agent writes the schema under its public DID.
NewSchema == [did |-> public[Issuer], name |-> scenario.name]

WritesSchema ==
  /\ ledgerSchemas' = ledgerSchemas \cup {NewSchema}
  /\ UNCHANGED <<dids, public, definitions, ledgerDids, ledgerDefinitions>>

PostSchema ==
  /\ Asks("post schema")
  /\ WritesSchema
  /\ schemas' = [schemas EXCEPT ![Issuer] = @ \cup {NewSchema}]
  /\ ThenDefinition(NewSchema)
  /\ UNCHANGED <<did, made>>

\* The schema is on the ledger, and the wallet does not know.
SchemaLost ==
  \E s \in ledgerSchemas \ schemas[Issuer] : s.did = issuer_did /\ s.name = scenario.name

\* The agent may refuse to write the same schema again.
SchemaRefused ==
  /\ Asks("post schema") /\ SchemaLost
  /\ Fail
  /\ UNCHANGED <<wallet, ledger, context, did, made>>

----------------------------------------------------------------------------
(* "creates a new credential definition", and a last look at both.         *)

\* Mutant: the tag alone is compared.
DefinitionsOfTag == {d \in definitions[Issuer] : d.tag = tag}

\* Whether one can be revoked is not asked.
CreatedDefinitions == {d \in definitions[Issuer] : d.schema = schema_id /\ d.tag = tag}

FoundDefinition ==
  /\ Asks("find definition")
  /\ definition_id' \in CreatedDefinitions
  /\ Then("get schema")
  /\ UNCHANGED <<wallet, ledger, issuer_did, schema_id, tag, did, made>>

NoDefinition ==
  /\ Asks("find definition") /\ CreatedDefinitions = {}
  /\ Then("post definition")
  /\ UNCHANGED <<wallet, ledger, context, did, made>>

\* Credo never asks for revocation support.
NewDefinition ==
  [did |-> public[Issuer], schema |-> schema_id, tag |-> tag,
   revocable |-> scenario.revocable /\ kind[Issuer] = "acapy"]

\* On the ledger a definition is known by its DID, schema and tag: one written twice
\* replaces the other.
Others(d) == {e \in ledgerDefinitions : ~(e.did = d.did /\ e.schema = d.schema /\ e.tag = d.tag)}

WritesDefinition ==
  /\ ledgerDefinitions' = Others(NewDefinition) \cup {NewDefinition}
  /\ UNCHANGED <<dids, public, schemas, ledgerDids, ledgerSchemas>>

PostDefinition ==
  /\ Asks("post definition")
  /\ WritesDefinition
  /\ definitions' = [definitions EXCEPT ![Issuer] = @ \cup {NewDefinition}]
  /\ definition_id' = NewDefinition
  /\ made' = made \cup {NewDefinition}
  /\ Then("get schema")
  /\ UNCHANGED <<issuer_did, schema_id, tag, did>>

DefinitionLost ==
  \E d \in ledgerDefinitions \ definitions[Issuer] : d.schema = schema_id /\ d.tag = tag

\* The agent may refuse here too.
DefinitionRefused ==
  /\ Asks("post definition") /\ DefinitionLost
  /\ Fail
  /\ UNCHANGED <<wallet, ledger, context, did, made>>

GetSchema ==
  /\ Asks("get schema")
  /\ IF schema_id \in ledgerSchemas THEN Then("get definition") ELSE Fail
  /\ UNCHANGED <<wallet, ledger, context, did, made>>

GetDefinition ==
  /\ Asks("get definition")
  /\ request' = "none"
  /\ verdict' = IF definition_id \in ledgerDefinitions THEN "passed" ELSE "failed"
  /\ UNCHANGED <<wallet, ledger, context, did, faulted, made>>

----------------------------------------------------------------------------
(* Requests that fail, with or without their effect.                       *)

\* What is written to the ledger may not reach the wallet.
Effect ==
  \/ UNCHANGED <<wallet, ledger>>
  \/ request = "create did" /\ Creates
  \/ request = "register did" /\ Registers
  \/ request = "publish did" /\ Publishes
  \/ request = "post schema" /\ WritesSchema /\ UNCHANGED schemas
  \/ request = "post definition" /\ WritesDefinition /\ UNCHANGED definitions

\* Mutant: nor is that of the request that reads the DID back.
OnErrorOfNeither ==
  IF request \in {"publish did", "get did"}
  THEN request' = (IF request = "get did" THEN "find schema" ELSE "get did") /\ UNCHANGED verdict
  ELSE verdict' = "failed" /\ request' = "none"

\* The status of "publish did" is ignored, unless no answer comes and the POST raises; a
\* failure of any other is the end.
OnError ==
  \/ request = "publish did" /\ request' = "get did" /\ UNCHANGED verdict
  \/ verdict' = "failed" /\ request' = "none"

Happens == faults < MaxFaults /\ faults' = faults + 1 /\ faulted' = TRUE

Fault ==
  /\ verdict = "running"
  /\ Happens
  /\ Effect
  /\ OnError
  /\ UNCHANGED <<kind, seed, scenario, runs, context, did, made>>

\* "is running with parameters", before the rest of a scenario: POST agent/start.  The new
\* agent has a wallet named by the time, and the DID of the seed its backchannel keeps.
Restarts(d) ==
  /\ dids' = [dids EXCEPT ![Issuer] = {d} \ {None}]
  /\ public' = [public EXCEPT ![Issuer] = d]
  /\ schemas' = [schemas EXCEPT ![Issuer] = {}]
  /\ definitions' = [definitions EXCEPT ![Issuer] = {}]

RestartCredo ==
  /\ Asks("find did") /\ kind[Issuer] = "credo"
  /\ Restarts(seed[Issuer])
  /\ UNCHANGED <<ledger, context, did, request, verdict, faulted, made>>

\* A start that fails leaves no agent, or one without a DID.
RestartFails ==
  /\ verdict = "running" /\ request = "find did" /\ kind[Issuer] = "credo"
  /\ Happens
  /\ Restarts(None)
  /\ verdict' = "failed" /\ request' = "none"
  /\ UNCHANGED <<kind, seed, scenario, runs, ledger, context, did, made>>

----------------------------------------------------------------------------
Init ==
  /\ kind \in [Issuers -> {"acapy", "credo"}]
  /\ seed \in [Issuers -> Dids \cup {None}]
  /\ \A i, j \in Issuers : i # j /\ seed[i] # None => seed[i] # seed[j]
  /\ \A i \in Issuers : seed[i] # None <=> kind[i] = "credo"
  /\ dids = [i \in Issuers |-> {seed[i]} \ {None}] /\ public = seed
  /\ schemas = [i \in Issuers |-> {}] /\ definitions = [i \in Issuers |-> {}]
  /\ ledgerDids = {seed[i] : i \in Issuers} \ {None}
  /\ ledgerSchemas = {} /\ ledgerDefinitions = {}
  /\ scenario \in Scenarios
  /\ issuer_did = None /\ schema_id = None /\ definition_id = None
  /\ tag \in Tags /\ did = None
  /\ request = "find did" /\ verdict = "running"
  /\ runs = 1 /\ faults = 0 /\ faulted = FALSE /\ made = {}

\* The next scenario, or the same one tried again, in a new context.
NextScenario ==
  /\ verdict # "running" /\ runs < MaxScenarios
  /\ scenario' \in Scenarios
  /\ issuer_did' = None /\ schema_id' = None /\ definition_id' = None
  /\ request' = "find did" /\ verdict' = "running"
  /\ runs' = runs + 1 /\ faulted' = FALSE /\ made' = {} /\ did' = None
  /\ UNCHANGED <<kind, seed, wallet, ledger, tag, faults>>

Next ==
  \/ FoundDid \/ NoDid \/ CreateDid \/ RegisterDid \/ PublishDid \/ GetDid
  \/ FoundSchema \/ NoSchema \/ PostSchema \/ SchemaRefused
  \/ FoundDefinition \/ NoDefinition \/ PostDefinition \/ DefinitionRefused
  \/ GetSchema \/ GetDefinition
  \/ Fault \/ RestartCredo \/ RestartFails \/ NextScenario

Spec == Init /\ [][Next]_vars

----------------------------------------------------------------------------
(* Properties.                                                             *)

\* Every variable has its type.
TypeOK ==
  /\ kind \in [Issuers -> {"acapy", "credo"}]
  /\ seed \in [Issuers -> Dids \cup {None}]
  /\ dids \in [Issuers -> SUBSET Dids] /\ public \in [Issuers -> Dids \cup {None}]
  /\ schemas \in [Issuers -> SUBSET Schemas] /\ definitions \in [Issuers -> SUBSET Definitions]
  /\ ledgerDids \subseteq Dids
  /\ ledgerSchemas \subseteq Schemas /\ ledgerDefinitions \subseteq Definitions
  /\ scenario \in Scenarios
  /\ issuer_did \in Dids \cup {None}
  /\ schema_id \in Schemas \cup {None}
  /\ definition_id \in Definitions \cup {None}
  /\ tag \in Tags /\ did \in Dids \cup {None}
  /\ request \in Requests /\ verdict \in {"running", "passed", "failed"}
  /\ runs \in 1..MaxScenarios /\ faults \in 0..MaxFaults
  /\ faulted \in BOOLEAN /\ made \subseteq Definitions

\* When the steps have passed, the context holds a credential definition the issuer can
\* issue from: it is on the ledger and in the issuer's wallet, with the tag drawn, over the
\* schema of the context, which is of the name asked for, and all under the issuer's public
\* DID.  It can be revoked if that was asked for, unless it was made in an earlier scenario
\* that drew the same tag, or by Credo.
PassMeansReady ==
  verdict = "passed" =>
    /\ definition_id \in ledgerDefinitions \cap definitions[Issuer]
    /\ definition_id.tag = tag
    /\ definition_id.schema = schema_id
    /\ schema_id \in ledgerSchemas
    /\ schema_id.name = scenario.name
    /\ schema_id.did = issuer_did /\ definition_id.did = issuer_did
    /\ issuer_did = public[Issuer] /\ issuer_did \in ledgerDids
    /\ \/ definition_id.revocable = scenario.revocable
       \/ kind[Issuer] = "credo"
       \/ definition_id \notin made

\* Whatever failed requests and restarts have left half done, an attempt in which no
\* request fails passes, unless what it is to write is on the ledger and not in the
\* wallet, or the last start of a Credo agent failed.
CleanRetry ==
  verdict = "failed" => \/ faulted
                        \/ SchemaLost \/ DefinitionLost
                        \/ kind[Issuer] = "credo" /\ public[Issuer] = None

\* However often set-up fails and is tried again, no issuer comes to have two different
\* schemas of one name on the ledger, under different DIDs, whether or not its wallet
\* knows.  (The ledger is a set: that a schema is written again as it is, is not seen.)
OneSchema ==
  \A i \in Issuers : \A s, t \in ledgerSchemas :
    s.did \in dids[i] \cup {seed[i]} /\ t.did \in dids[i] \cup {seed[i]} /\ s.name = t.name
      => s = t
=============================================================================
