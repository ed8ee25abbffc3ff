------------------------------ MODULE Settings ------------------------------
(***************************************************************************)
(* The settings of the AI: the form of AISettingsWindow, the configuration *)
(* file with its sealed key, the configuration in memory that questions    *)
(* are asked with, and the connection test.                                *)
(*                                                                         *)
(* A file that is absent, damaged, or says that the AI is off has no       *)
(* configuration.  A key is sealed for the account that saved it, and the  *)
(* program may be started under another.                                   *)
(***************************************************************************)
EXTENDS Values, Integers

CONSTANTS
    Endpoints,     \* what can be typed as an endpoint
    EndpointKind,  \* of each: loopback, remote, refused or unparseable
    Keys,          \* what can be typed as a key
    Accounts,      \* accounts of Windows
    MaxEdits       \* bound on edits, failures and restarts

ASSUME SettingsConstants ==
    /\ EndpointKind \in [Endpoints -> {"loopback", "remote", "refused", "unparseable"}]
    /\ MaxEdits \in Nat

VARIABLES
    account,     \* who runs the program
    configFile,  \* the configuration in the file, None if it has none
    aiConfig,    \* ai_config, with its adapter
    form,        \* the fields of the window, None if it is closed
    verdict,     \* what its status line says
    active,      \* what it says under ACTIVE CONFIGURATION
    contact,     \* the request just made, None if none was
    submitted,   \* what was ever on the form together as it was saved or tested
    edits

settingsVars ==
    <<account, configFile, aiConfig, form, verdict, active, contact, submitted, edits>>

FormProviders == {"none", "nox", "openai_compatible", "custom"}

\* What is shown of a configuration: never its key.
Shown(config) ==
    IF config = None THEN None
    ELSE [provider |-> config.provider, endpoint |-> config.endpoint, model |-> config.model,
          remote |-> config.remote, keyed |-> config.key # None]

\* What the window begins with: of a key there is never anything.
FormOf(config) ==
    IF config = None
    THEN [provider |-> "none", endpoint |-> None, model |-> None, remote |-> FALSE, key |-> None]
    ELSE [config EXCEPT !.key = None]

\* A configuration that was saved in an earlier run.
Earlier ==
    {[provider |-> "openai_compatible", endpoint |-> e, model |-> "m", remote |-> TRUE, key |-> k] :
        e \in {e \in Endpoints : EndpointKind[e] = "remote"}, k \in Keys}

Sealed(config, by) == [config |-> config, sealed |-> IF config.key = None THEN None ELSE by]

\* load_provider_config: a key that cannot be unsealed is as good as no configuration.
LoadedConfig(file, by) ==
    IF file = None \/ file.sealed \notin {None, by} THEN None ELSE file.config

SettingsInit ==
    /\ account \in Accounts
    /\ \E earlier \in Earlier \cup {None} :
        /\ configFile \in IF earlier = None THEN {None} ELSE {Sealed(earlier, a) : a \in Accounts}
        /\ submitted = IF earlier = None THEN {} ELSE {earlier}
    /\ aiConfig = LoadedConfig(configFile, account)
    /\ form = None
    /\ verdict = None
    /\ active = None
    /\ contact = None
    /\ edits = 0

Bounded == edits < MaxEdits /\ edits' = edits + 1

-----------------------------------------------------------------------------
\* The window.

OpenSettings ==
    /\ form = None
    /\ form' = FormOf(aiConfig)
    /\ verdict' = None
    /\ active' = Shown(aiConfig)
    /\ contact' = None
    /\ UNCHANGED <<account, configFile, aiConfig, submitted, edits>>

CloseSettings ==
    /\ form # None
    /\ form' = None /\ verdict' = None /\ active' = None
    /\ contact' = None
    /\ UNCHANGED <<account, configFile, aiConfig, submitted, edits>>

\* A provider is chosen, or a field filled in that _rebuild_fields shows for it.  What was
\* typed stays in the fields that are hidden.
Edit ==
    /\ form # None
    /\ Bounded
    /\ \/ \E p \in FormProviders \ {form.provider} : form' = [form EXCEPT !.provider = p]
       \/ /\ form.provider = "openai_compatible"
          /\ \/ \E e \in Endpoints \cup {None} : form' = [form EXCEPT !.endpoint = e]
             \/ \E m \in {"m", None} : form' = [form EXCEPT !.model = m]
             \/ \E k \in Keys \cup {None} : form' = [form EXCEPT !.key = k]
             \/ form' = [form EXCEPT !.remote = ~@]
    /\ contact' = None
    /\ UNCHANGED <<account, configFile, aiConfig, verdict, active, submitted>>

\* Mutant, used by no specification: what was typed for another provider goes along.
BugCollectedFields == form

\* _collect_fields: of the fields that are hidden only the model, for custom.
CollectedFields ==
    CASE form.provider = "openai_compatible" -> form
      [] form.provider = "custom" ->
             [form EXCEPT !.endpoint = None, !.remote = FALSE, !.key = None]
      [] OTHER ->
             [form EXCEPT !.endpoint = None, !.remote = FALSE, !.key = None, !.model = None]

\* urlparse raises an error of its own, which neither _save nor the test expects.
Raises(fields) == fields.endpoint # None /\ EndpointKind[fields.endpoint] = "unparseable"

\* from_mapping and validate_endpoint.
Valid(fields) ==
    fields.endpoint \in {None} \cup
        {e \in Endpoints : EndpointKind[e] \in {"loopback"} \cup IF fields.remote THEN {"remote"} ELSE {}}

\* The provider can be made and asked from this configuration alone.
CanAsk(fields) ==
    fields.provider = "openai_compatible" /\ fields.endpoint # None /\ fields.model # None

-----------------------------------------------------------------------------
\* Saving.  An error that is raised, by urlparse or by Windows as it seals the key, ends the
\* callback before it has changed anything.

\* Mutant, used by no specification: what was submitted is taken over, whatever became of
\* the file.
BugReloaded(file, fields) == fields

\* reload_ai_config: the file counts.
Reloaded(file, fields) == LoadedConfig(file, account)

\* The file is written and read back; either can fail, and nothing is said of it.
Stored(file, fields) ==
    \/ configFile' = file /\ aiConfig' = Reloaded(configFile', fields) /\ UNCHANGED edits
    \/ Bounded /\ configFile' = configFile /\ aiConfig' = Reloaded(configFile', fields)
    \/ Bounded /\ configFile' = file /\ aiConfig' = None

\* Mutant, used by no specification: a blank key is the one that is saved already.
BugToSave(fields) ==
    IF fields.key = None /\ aiConfig # None THEN [fields EXCEPT !.key = aiConfig.key] ELSE fields

\* save_provider_config: a blank key is no key.
ToSave(fields) == fields

\* _save.  Turning the AI off leaves the key in its field.
SaveSettings ==
    /\ form # None
    /\ contact' = None /\ UNCHANGED account
    /\ LET fields == CollectedFields IN
       \/ /\ fields.provider = "none"
          /\ Stored(None, None)
          /\ verdict' = "disabled" /\ active' = Shown(aiConfig')
          /\ UNCHANGED <<form, submitted>>
       \/ /\ fields.provider # "none" /\ ~Raises(fields) /\ ~Valid(fields)
          /\ verdict' = "not saved"
          /\ UNCHANGED <<configFile, aiConfig, form, active, submitted, edits>>
       \/ /\ fields.provider # "none" /\ ~Raises(fields) /\ Valid(fields)
          /\ Stored(Sealed(ToSave(fields), account), fields)
          /\ verdict' = "saved" /\ active' = Shown(aiConfig')
          /\ form' = [form EXCEPT !.key = None]
          /\ submitted' = submitted \cup {fields}

\* _reset.
ResetSettings ==
    /\ form # None
    /\ Stored(None, None)
    /\ form' = FormOf(None)
    /\ verdict' = "disabled" /\ active' = Shown(aiConfig')
    /\ contact' = None
    /\ UNCHANGED <<account, submitted>>

-----------------------------------------------------------------------------
\* Requests.

\* test_connection of what is on the form: the key that is saved is not there.  Of the
\* five ways to classify what an endpoint answers, or does not, there are two here.
TestConnection ==
    /\ form # None
    /\ LET fields == CollectedFields IN
       \/ /\ fields.provider = "none"
          /\ verdict' = "select a provider"
          /\ contact' = None /\ UNCHANGED submitted
       \/ /\ fields.provider # "none" /\ ~Raises(fields)
          /\ verdict' = IF Valid(fields) /\ fields.provider # "openai_compatible"
                        THEN "Provider unavailable" ELSE "Invalid configuration"
          /\ ~(Valid(fields) /\ CanAsk(fields))
          /\ contact' = None /\ UNCHANGED submitted
       \/ /\ ~Raises(fields) /\ Valid(fields) /\ CanAsk(fields)
          /\ contact' = fields
          /\ submitted' = submitted \cup {fields}
          /\ verdict' \in {"Connected", "Endpoint unavailable"}
    /\ UNCHANGED <<account, configFile, aiConfig, form, active, edits>>

\* A question: refused without an adapter, and failed without a request if the provider
\* cannot be made.
AskProvider ==
    /\ aiConfig # None /\ CanAsk(aiConfig)
    /\ contact' = aiConfig
    /\ UNCHANGED <<account, configFile, aiConfig, form, verdict, active, submitted, edits>>

\* The program is started again, perhaps by someone else, with a file that cannot be read
\* or is damaged.
RestartProgram ==
    /\ Bounded
    /\ account' \in Accounts
    /\ configFile' \in {configFile, None}
    /\ aiConfig' \in {LoadedConfig(configFile', account'), None}
    /\ form' = None /\ verdict' = None /\ active' = None
    /\ contact' = None /\ UNCHANGED submitted

SettingsNext ==
    \/ OpenSettings \/ CloseSettings \/ Edit \/ SaveSettings \/ ResetSettings
    \/ TestConnection \/ AskProvider \/ RestartProgram

-----------------------------------------------------------------------------
\* What is in memory is what a restart would find, or nothing, however writing and reading
\* the file went; and the window names it, whatever its status line says.
MemoryIsStored ==
    /\ aiConfig # None => aiConfig = LoadedConfig(configFile, account)
    /\ form # None => active = Shown(aiConfig)

\* An endpoint is sent a key only if the two were on the form together, and a remote one is
\* contacted only with the box ticked for it; nothing typed for a provider is left in the
\* configuration of one that has no such field.
RequestsWereMeant ==
    /\ contact # None =>
        /\ \E fields \in submitted :
            /\ fields.endpoint = contact.endpoint /\ fields.key = contact.key
            /\ EndpointKind[contact.endpoint] = "remote" => fields.remote
    /\ aiConfig # None /\ aiConfig.provider # "openai_compatible" =>
        aiConfig.endpoint = None /\ aiConfig.key = None

SettingsAreTrue == MemoryIsStored /\ RequestsWereMeant
=============================================================================
