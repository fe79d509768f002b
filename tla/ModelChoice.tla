----------------------------- MODULE ModelChoice -----------------------------
(***************************************************************************)
(* Which model answers: the catalog the server builds when it starts       *)
(* (agent/models.ts, cliRuntime.ts), the copy the client keeps of it, what *)
(* the pickers and the settings screen do with it (rpc/ai.ts, settings.ts, *)
(* model-picker.tsx, settings.tsx, screens/chat.tsx) and what the server   *)
(* runs a turn on (AgentServiceLive.send).                                 *)
(*                                                                         *)
(* The client shows one choice, asks for it, and the server may have       *)
(* restarted with other CLIs in between.  Labels and tiers are left out.   *)
(***************************************************************************)
EXTENDS Integers

CONSTANTS
    CatalogModels,   \* [provider |-> its model ids, in the catalog's order]
    DefaultModels,   \* what DBCHAT_MODEL may name, ids outside the catalog included
    PickThreads,     \* threads
    MaxPickOps,      \* bound: picks, settings and sends of the user
    MaxRestarts      \* bound: restarts of the server

VARIABLES
    installedClis,   \* the CLI providers whose binary is on this machine
    serverCatalog,   \* the server's: [ready, default, model], model being DBCHAT_MODEL
    catalogShown,    \* the client's cached ai.models, or NoCatalog
    userDefault,     \* settings: defaultModel
    providerModels,  \* settings: providerModels
    threadModel,     \* threads.model of each stored thread, NotCreated of the others
    threadListed,    \* the same, in the client's cached thread list
    picked,          \* chat store: the model of each thread of this session, "home" included
    creating,        \* the draft being sent: the model its closure holds, or NoSend
    sendCalls,       \* chat.send under way: [asked], or NoSend
    modelTurn,       \* the turn running on a thread: [model, asked], or NoSend
    wanted,          \* history: the user's pick since the last send of the thread; Missed when
                     \* its last send was refused or the client did not see the turn end
    pickOps          \* [ops, restarts] so far, for the bounds

pickVars == <<installedClis, serverCatalog, catalogShown, userDefault, providerModels, threadModel, threadListed,
              picked, creating, sendCalls, modelTurn, wanted, pickOps>>

NoModel == "none"
Draft == "home"               \* the draft thread
NotCreated == "notCreated"
Missed == "missed"
NoSend == [kind |-> "none"]
NoCatalog == [ready |-> {}, default |-> NoModel, model |-> NoModel]
CatalogProviders == DOMAIN CatalogModels
CliProviders == CatalogProviders \ {"anthropic"}
ModelsOf(p) == {CatalogModels[p][i] : i \in DOMAIN CatalogModels[p]}
ModelIds == UNION {ModelsOf(p) : p \in CatalogProviders}
OwnerOf(m) == CHOOSE p \in CatalogProviders : m \in ModelsOf(p)

\* every provider has a model, and no model is named like a mark of this module
ASSUME PickAssumption ==
    /\ "anthropic" \in CatalogProviders
    /\ \A p \in CatalogProviders : 1 \in DOMAIN CatalogModels[p]
    /\ NoModel \notin ModelIds /\ NotCreated \notin ModelIds \cup DefaultModels
    /\ Draft \notin PickThreads

(***************************************************************************)
(* The catalog and the two resolutions.                                    *)
(***************************************************************************)
\* anthropic is always reported ready
BuildCatalog(present, m) ==
    [ready |-> CatalogProviders \ (CliProviders \ present),
     default |-> IF m \in ModelIds THEN m ELSE NoModel, model |-> m]

ReadyModel(m, c) == m \in ModelIds /\ OwnerOf(m) \in c.ready

\* the first candidate the client's catalog calls ready, then the server's default, then any ready one
ResolveSelected(c, candidates) ==
    LET good == {i \in DOMAIN candidates : ReadyModel(candidates[i], c)} IN
    IF good # {} THEN candidates[CHOOSE i \in good : \A j \in good : i <= j]
    ELSE IF ReadyModel(c.default, c) THEN c.default
    ELSE IF c.ready # {} THEN CatalogModels["anthropic"][1]
    ELSE NoModel

SelectedModel(t) ==
    ResolveSelected(catalogShown,
        <<picked[t], IF t = Draft THEN NoModel ELSE threadListed[t], userDefault>>)

\* resolveModel: a request is honoured or refused, never replaced
ResolveModel(asked, stored, m, c) ==
    IF asked # NoModel THEN [ok |-> ReadyModel(asked, c), model |-> asked]
    ELSE [ok |-> TRUE, model |-> IF ReadyModel(stored, c) THEN stored ELSE m]

PickInit ==
    \E present \in SUBSET CliProviders, m \in DefaultModels :
        /\ installedClis = present
        /\ serverCatalog = BuildCatalog(present, m)
        /\ catalogShown = NoCatalog
        /\ userDefault = NoModel
        /\ providerModels = [p \in CatalogProviders |-> NoModel]
        /\ \E stored \in SUBSET PickThreads :
              threadModel = [t \in PickThreads |-> IF t \in stored THEN NoModel ELSE NotCreated]
        /\ threadListed = threadModel
        /\ picked = [t \in PickThreads \cup {Draft} |-> NoModel]
        /\ creating = NoSend
        /\ sendCalls = [t \in PickThreads |-> NoSend]
        /\ modelTurn = [t \in PickThreads |-> NoSend]
        /\ wanted = picked
        /\ pickOps = [ops |-> 0, restarts |-> 0]

(***************************************************************************)
(* The client.                                                             *)
(***************************************************************************)
Stored(t) == threadModel[t] # NotCreated

Choice == pickOps.ops < MaxPickOps /\ pickOps' = [pickOps EXCEPT !.ops = @ + 1]

LoadCatalog ==
    /\ catalogShown' = serverCatalog
    /\ UNCHANGED <<installedClis, serverCatalog, userDefault, providerModels, threadModel, threadListed, picked,
                    creating, sendCalls, modelTurn, wanted, pickOps>>

LoadThreads ==
    /\ threadListed' = threadModel
    /\ UNCHANGED <<installedClis, serverCatalog, catalogShown, userDefault, providerModels, threadModel, picked,
                    creating, sendCalls, modelTurn, wanted, pickOps>>

\* the picker of a thread, also while its turn streams; models of providers not ready are disabled
Pick(t, m) ==
    /\ Choice
    /\ t # Draft => Stored(t)
    /\ ReadyModel(m, catalogShown)
    /\ picked' = [picked EXCEPT ![t] = m]
    /\ wanted' = [wanted EXCEPT ![t] = m]
    /\ UNCHANGED <<installedClis, serverCatalog, catalogShown, userDefault, providerModels, threadModel, threadListed,
                    creating, sendCalls, modelTurn>>

SaveDefault(m) ==
    /\ userDefault' = m
    /\ providerModels' = [providerModels EXCEPT ![OwnerOf(m)] = m]
    /\ UNCHANGED <<installedClis, serverCatalog, catalogShown, threadModel, threadListed, picked, creating, sendCalls,
                    modelTurn, wanted>>

\* the picker's "Set selected model as default"
PickerDefault(t) ==
    /\ Choice
    /\ t # Draft => Stored(t)
    /\ SelectedModel(t) \notin {NoModel, userDefault}
    /\ SaveDefault(SelectedModel(t))

\* the settings screen: the provider new chats use, and the model it shows for a provider
DefaultProvider ==
    IF catalogShown = NoCatalog THEN NoModel
    ELSE IF userDefault # NoModel THEN OwnerOf(userDefault)
    ELSE IF catalogShown.default # NoModel THEN OwnerOf(catalogShown.default)
    ELSE NoModel

ProviderModel(p) ==
    IF providerModels[p] # NoModel THEN providerModels[p]
    ELSE IF catalogShown = NoCatalog THEN NoModel
    ELSE IF catalogShown.default \in ModelsOf(p) THEN catalogShown.default
    ELSE CatalogModels[p][1]

ChooseProviderModel(p, m) ==
    /\ Choice
    /\ m \in ModelsOf(p) /\ ReadyModel(m, catalogShown)
    /\ IF DefaultProvider = p
       THEN SaveDefault(m)
       ELSE /\ providerModels' = [providerModels EXCEPT ![p] = m]
            /\ UNCHANGED <<installedClis, serverCatalog, catalogShown, userDefault, threadModel, threadListed, picked,
                            creating, sendCalls, modelTurn, wanted>>

UseProviderForNewChats(p) ==
    /\ Choice
    /\ DefaultProvider # p /\ p \in catalogShown.ready
    /\ ProviderModel(p) # NoModel
    /\ SaveDefault(ProviderModel(p))

\* doSend on a stored thread: the request carries what the picker shows, if anything
SendChosen(t) ==
    /\ Choice
    /\ Stored(t) /\ sendCalls[t] = NoSend
    /\ sendCalls' = [sendCalls EXCEPT ![t] = [kind |-> "send", asked |-> SelectedModel(t)]]
    /\ wanted' = [wanted EXCEPT ![t] = NoModel]
    /\ UNCHANGED <<installedClis, serverCatalog, catalogShown, userDefault, providerModels, threadModel, threadListed,
                    picked, creating, modelTurn>>

\* doSend on the draft: the thread is created first, with the choice of this render in the closure
SendDraft ==
    /\ Choice
    /\ creating = NoSend
    /\ creating' = [kind |-> "create", asked |-> SelectedModel(Draft)]
    /\ wanted' = [wanted EXCEPT ![Draft] = NoModel]
    /\ UNCHANGED <<installedClis, serverCatalog, catalogShown, userDefault, providerModels, threadModel, threadListed,
                    picked, sendCalls, modelTurn>>

DraftCreated(t) ==
    /\ creating # NoSend /\ ~Stored(t)
    /\ threadModel' = [threadModel EXCEPT ![t] = NoModel]
    /\ picked' = [picked EXCEPT ![t] = creating.asked]
    /\ sendCalls' = [sendCalls EXCEPT ![t] = [kind |-> "send", asked |-> creating.asked]]
    /\ creating' = NoSend
    /\ UNCHANGED <<installedClis, serverCatalog, catalogShown, userDefault, providerModels, threadListed, modelTurn, wanted,
                    pickOps>>

\* a reload forgets the session's picks and the caches
ReloadPicks ==
    /\ Choice
    /\ picked' = [t \in DOMAIN picked |-> NoModel]
    /\ wanted' = picked'
    /\ catalogShown' = NoCatalog
    /\ threadListed' = [t \in PickThreads |-> NotCreated]
    /\ creating' = NoSend
    /\ sendCalls' = [t \in PickThreads |-> NoSend]
    /\ UNCHANGED <<installedClis, serverCatalog, userDefault, providerModels, threadModel, modelTurn>>

(***************************************************************************)
(* The server.                                                             *)
(***************************************************************************)
\* a refused send leaves the picker as it is
RefuseSend(t) ==
    /\ wanted' = [wanted EXCEPT ![t] = IF @ = NoModel THEN Missed ELSE @]
    /\ sendCalls' = [sendCalls EXCEPT ![t] = NoSend]

StartModelTurn(t) ==
    LET resolved == ResolveModel(sendCalls[t].asked, threadModel[t], serverCatalog.model, serverCatalog) IN
    /\ sendCalls[t] # NoSend
    /\ IF ~resolved.ok \/ modelTurn[t] # NoSend
       THEN RefuseSend(t) /\ UNCHANGED <<threadModel, modelTurn>>
       ELSE /\ threadModel' = [threadModel EXCEPT ![t] = resolved.model]
            /\ modelTurn' = [modelTurn EXCEPT ![t] = [kind |-> "modelTurn", asked |-> sendCalls[t].asked,
                                            model |-> resolved.model]]
            /\ sendCalls' = [sendCalls EXCEPT ![t] = NoSend]
            /\ UNCHANGED wanted
    /\ UNCHANGED <<installedClis, serverCatalog, catalogShown, userDefault, providerModels, threadListed, picked,
                    creating, pickOps>>

\* TurnDone names the model and the store takes it over; after an Error the client may not see it
EndModelTurn(t) ==
    /\ modelTurn[t] # NoSend
    /\ \/ picked' = [picked EXCEPT ![t] = modelTurn[t].model] /\ UNCHANGED wanted
       \/ wanted' = [wanted EXCEPT ![t] = IF @ = NoModel THEN Missed ELSE @] /\ UNCHANGED picked
    /\ modelTurn' = [modelTurn EXCEPT ![t] = NoSend]
    /\ UNCHANGED <<installedClis, serverCatalog, catalogShown, userDefault, providerModels, threadModel, threadListed,
                    creating, sendCalls, pickOps>>

\* the next process looks for the CLIs again; calls and turns of the old one are gone
RestartServer ==
    /\ pickOps.restarts < MaxRestarts
    /\ \E m \in DefaultModels : serverCatalog' = BuildCatalog(installedClis, m)
    /\ modelTurn' = [t \in PickThreads |-> NoSend]
    /\ wanted' = [t \in DOMAIN wanted |->
                    IF t = Draft \/ wanted[t] # NoModel \/ (modelTurn[t] = NoSend /\ sendCalls[t] = NoSend)
                    THEN wanted[t] ELSE Missed]
    /\ sendCalls' = [t \in PickThreads |-> NoSend]
    /\ creating' = NoSend
    /\ pickOps' = [pickOps EXCEPT !.restarts = @ + 1]
    /\ UNCHANGED <<installedClis, catalogShown, userDefault, providerModels, threadModel, threadListed, picked>>

\* somebody installs or removes a CLI
MachineChanges(p) ==
    /\ installedClis' = IF p \in installedClis THEN installedClis \ {p} ELSE installedClis \cup {p}
    /\ UNCHANGED <<serverCatalog, catalogShown, userDefault, providerModels, threadModel, threadListed, picked,
                    creating, sendCalls, modelTurn, wanted, pickOps>>

PickNext ==
    \/ LoadCatalog \/ LoadThreads \/ SendDraft \/ ReloadPicks \/ RestartServer
    \/ \E p \in CliProviders : MachineChanges(p)
    \/ \E p \in CatalogProviders : UseProviderForNewChats(p)
    \/ \E p \in CatalogProviders, m \in ModelIds : ChooseProviderModel(p, m)
    \/ \E t \in PickThreads \cup {Draft} : PickerDefault(t)
    \/ \E t \in PickThreads \cup {Draft}, m \in ModelIds : Pick(t, m)
    \/ \E t \in PickThreads : SendChosen(t) \/ DraftCreated(t) \/ StartModelTurn(t) \/ EndModelTurn(t)

PickSpec == PickInit /\ [][PickNext]_pickVars

(***************************************************************************)
(* Properties.                                                             *)
(***************************************************************************)
\* A turn runs on the model the picker showed when it was sent, whatever the user picks, saves as a
\* default or installs meanwhile and whatever the server restarts into, and that model's provider is
\* one this server calls ready; the thread's row names the model that runs (resolveModel: a stale
\* client "fails loudly instead of silently running on something else").
TurnsRunWhatWasShown ==
    \A t \in PickThreads : modelTurn[t] # NoSend =>
        /\ threadModel[t] = modelTurn[t].model
        /\ modelTurn[t].asked # NoModel => modelTurn[t].model = modelTurn[t].asked /\ ReadyModel(modelTurn[t].model, serverCatalog)

\* The default of new chats is always the model saved for its own provider, from whichever of the
\* picker, the provider's combobox and the button it was set, so that the settings screen's "New
\* chats start on" names what a new chat starts on.
DefaultsAgree ==
    userDefault # NoModel => providerModels[OwnerOf(userDefault)] = userDefault

\* A thread at rest that the user has not picked for since its last turn shows the model that turn
\* ran on, as a reload would find it in the row, provided the send was accepted and the client
\* saw the turn end.
PickerRemembers ==
    \A t \in PickThreads :
        modelTurn[t] = NoSend /\ sendCalls[t] = NoSend /\ wanted[t] = NoModel /\ picked[t] # NoModel
            => threadModel[t] = picked[t]
=============================================================================
