----------------------------- MODULE Integration -----------------------------
(***************************************************************************)
(* Parts of the Home Assistant integration side by side: the SMS command   *)
(* rules (SmsRules), the options dialogue that edits them (OptionsFlow)    *)
(* and the hub (IntegrationHub).  A behaviour is about one of them; the    *)
(* variables of the others stay as they are: new options reach the engine  *)
(* by a reload of the entry only, which begins with a new engine.          *)
(***************************************************************************)
EXTENDS SmsRules

CONSTANTS
  Dialogues, Names, Phones, Commands, RuleIds, Contacts, Manual, Files, MaxEdits, \* OptionsFlow
  Tokens, Limit, MaxOrders                                          \* IntegrationHub

VARIABLES
  part,
  options, copies, edits, released, changed, ghosts,
  backend, token, bucket, entry, mine, available, held, recent, issue, foreign, listening,
  shown, flight, jobs

Options == INSTANCE OptionsFlow

Hub == INSTANCE IntegrationHub WITH status <- entry

ASSUME ManualAssumption == Manual \notin Options!Ids

\* A file has recipients under ids like those the dialogue makes, and rules of which only
\* the form is checked (load_saved_recipients, load_sms_command_rules).
ASSUME FilesAssumption ==
  \A f \in Files :
    /\ DOMAIN f.recipients \subseteq Names \X {1, 2} /\ DOMAIN f.rules \subseteq RuleIds
    /\ f.recipients \in [ DOMAIN f.recipients -> Phones ]
    /\ f.rules \in [ DOMAIN f.rules -> [ from : Options!Ids \cup {Manual}, command : Commands,
                                       phone : Phones, imported : {TRUE} ] ]

ASSUME BoundsAssumption == {MaxEdits, Limit, MaxOrders} \subseteq Nat

flow == <<options, copies, edits, released, changed, ghosts>>
hub  == <<backend, token, bucket, entry, mine, available, held, recent, issue, foreign,
          listening, shown, flight, jobs>>

integration == <<part, vars, flow, hub>>

IntegrationInit ==
  /\ part \in {"rules", "options", "hub"}
  /\ Init /\ Options!Init /\ Hub!Init
  /\ part # "hub" => backend = Hub!Unset /\ token = CHOOSE t \in Tokens : TRUE

IntegrationNext ==
  /\ \/ part = "rules" /\ Next /\ UNCHANGED <<flow, hub>>
     \/ part = "options" /\ Options!Next /\ UNCHANGED <<vars, hub>>
     \/ part = "hub" /\ Hub!Next /\ UNCHANGED <<vars, flow>>
  /\ UNCHANGED part

IntegrationSpec == IntegrationInit /\ [][IntegrationNext]_integration

\* Rules, lists and duplicate checks refer to what they were meant to (OptionsFlow).
OptionsSound == part = "options" => Options!TypeOK /\ Options!OptionsSound

\* Entities show no more than the hub knows; a service call queues one job (IntegrationHub).
HubSound == part = "hub" => Hub!TypeOK /\ Hub!HubSound
=============================================================================
