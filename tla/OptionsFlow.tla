----------------------------- MODULE OptionsFlow -----------------------------
(***************************************************************************)
(* The options dialogue of the integration (config_flow.py): every open    *)
(* dialogue edits a working copy of the options, taken when it opens, and  *)
(* replaces the options as a whole when it finishes.  The SMS rules, the   *)
(* default recipients and the forwarding lists refer to saved recipients   *)
(* by an id made from the name (recipients.py); contacts of the add-on are *)
(* merged in wherever recipients are looked up.                            *)
(*                                                                         *)
(* Abstracted: a form that is rejected changes nothing and is left out;    *)
(* settings that refer to nothing are left out; commands that the         *)
(* duplicate check compares are model values, and files of a configuration *)
(* are drawn from a set.                                                   *)
(***************************************************************************)
EXTENDS Naturals, FiniteSets, Functions

CONSTANTS
  Dialogues,   \* option dialogues that may be open at the same time
  Names, Phones, Commands,
  RuleIds,     \* fresh uuid4 values
  Contacts,    \* the add-on's recipients: a function from ids to phones
  Manual,      \* the empty recipient id of a rule whose sender was typed in
  Files,       \* configurations that may be imported
  MaxEdits     \* bound: submitted forms in an instance

VARIABLES
  options,     \* entry.options, read by the rules engine and by forwarding
  copies,      \* the working copy of each open dialogue
  edits,
  released,    \* history: ids whose recipient was deleted, or lost when another dialogue
               \* finished
  changed,     \* history: ids that may have come to mean another number: of a recipient
               \* that was renumbered, given again after they were released, named by a
               \* recipient or a rule of an imported file, or given by two dialogues, of
               \* which neither knows what the other gave
  ghosts       \* history: ids chosen for a list although the working copy had lost them,
               \* or left in one by an import

past == <<released, changed, ghosts>>
vars == <<options, copies, edits, past>>

\* make_recipient_id appends the least number that makes the id new.
Made == Names \X (1 .. (MaxEdits + 2))
Ids  == Made \cup DOMAIN Contacts

NoRule == [ r \in {} |-> 0 ]
Empty == [ recipients |-> NoRule, defaults |-> {}, forward |-> {}, rules |-> NoRule ]

Open == DOMAIN copies

\* merge_saved_recipients: the first record wins; another one whose phone is there already
\* is left out.
Merged(saved, others) ==
  LET extra == { c \in DOMAIN others \ DOMAIN saved :
                   \A s \in DOMAIN saved : saved[s] # others[c] } IN
  [ i \in DOMAIN saved \cup extra |-> IF i \in DOMAIN saved THEN saved[i] ELSE others[i] ]

\* saved_recipients of the hub: those of the options, then the add-on's.
Available(o) == Merged(o.recipients, Contacts)

\* available_recipients of a dialogue: its copy, then what the hub has, if the entry is
\* loaded and the hub has heard of the add-on's recipients.  A recipient that is deleted in
\* the copy stays available while the options in force have it.
Offers(d) ==
  {copies[d].recipients} \cup
    { Merged(copies[d].recipients, known) : known \in {options.recipients, Available(options)} }

\* sms_rule_matches_sender: the numbers a rule admits now.
Admits(o, r) ==
  LET all == Available(o) IN
  IF o.rules[r].from = Manual THEN {o.rules[r].phone}
  ELSE IF o.rules[r].from \in DOMAIN all THEN {all[o.rules[r].from]} ELSE {}

Init ==
  /\ options = Empty /\ copies = [ d \in {} |-> Empty ] /\ edits = 0
  /\ released = {} /\ changed = {} /\ ghosts = {}

----------------------------------------------------------------------------
(* A dialogue.                                                             *)

\* async_step_init reads working_options, which copies the options once.
OpenDialogue(d) ==
  /\ d \notin Open
  /\ copies' = [ x \in Open \cup {d} |-> IF x = d THEN options ELSE copies[x] ]
  /\ UNCHANGED <<options, edits, past>>

\* async_step_finish, also the end of async_step_connection.
Finish(d) ==
  /\ d \in Open /\ options' = copies[d]
  /\ copies' = Restrict(copies, Open \ {d})
  /\ released' = released \cup (DOMAIN options.recipients \ DOMAIN copies[d].recipients)
  /\ UNCHANGED <<edits, changed, ghosts>>

\* The dialogue is closed without finishing.
Abandon(d) ==
  /\ d \in Open /\ copies' = Restrict(copies, Open \ {d})
  /\ UNCHANGED <<options, edits, past>>

Edit(d, o) ==
  /\ edits < MaxEdits /\ edits' = edits + 1
  /\ copies' = [ copies EXCEPT ![d] = o ] /\ UNCHANGED options

\* messaging, forwarding: the lists are chosen among the recipients there are.
Messaging(d) ==
  /\ \E offer \in Offers(d) : \E ids \in SUBSET DOMAIN offer :
       /\ ids # copies[d].defaults /\ Edit(d, [ copies[d] EXCEPT !.defaults = ids ])
       /\ ghosts' = ghosts \cup (ids \ DOMAIN Available(copies[d]))
  /\ UNCHANGED <<released, changed>>

Forwarding(d) ==
  /\ \E offer \in Offers(d) : \E ids \in {{}, DOMAIN offer} :
       ids # copies[d].forward /\ Edit(d, [ copies[d] EXCEPT !.forward = ids ])
  /\ UNCHANGED past

\* calling, entity_mapping, sms_security, reorder_sms_rules: nothing the lists and rules
\* refer to.
Settings(d) == d \in Open /\ UNCHANGED vars

\* Mutant of NewId: the id is the name's.
MutantNewId(name, existing) == <<name, 1>>

\* make_recipient_id
NewId(name, existing) ==
  CHOOSE id \in Made :
    /\ id[1] = name /\ id \notin existing
    /\ \A k \in 1 .. (id[2] - 1) : <<name, k>> \in existing

\* The ids of the recipients in force and of those in all dialogues.
Borne == DOMAIN options.recipients \cup UNION { DOMAIN copies[x].recipients : x \in Open }

With(f, x, v) == [ y \in DOMAIN f \cup {x} |-> IF y = x THEN v ELSE f[y] ]

AddRecipient(d) ==
  /\ \E name \in Names, phone \in Phones :
       LET id == NewId(name, DOMAIN copies[d].recipients) IN
       /\ Edit(d, [ copies[d] EXCEPT !.recipients = With(@, id, phone) ])
       /\ changed' = changed \cup (({id} \cap (released \cup Borne))
                                     \ DOMAIN copies[d].recipients)
  /\ UNCHANGED <<released, ghosts>>

EditRecipient(d) ==
  /\ \E id \in DOMAIN copies[d].recipients, phone \in Phones :
       /\ phone # copies[d].recipients[id]
       /\ Edit(d, [ copies[d] EXCEPT !.recipients[id] = phone ])
       /\ changed' = changed \cup {id}
  /\ UNCHANGED <<released, ghosts>>

\* Mutant of Cleaned: deleting leaves the default recipients alone.
MutantCleaned(ids, gone) == ids

Cleaned(ids, gone) == ids \ gone

\* delete_recipients cleans the default recipients, not the rules and forwarding lists.
DeleteRecipients(d) ==
  /\ \E gone \in SUBSET DOMAIN copies[d].recipients \ {{}} :
       /\ Edit(d, [ copies[d] EXCEPT !.recipients = Restrict(@, DOMAIN @ \ gone),
                                     !.defaults = Cleaned(@, gone) ])
       /\ released' = released \cup gone
  /\ UNCHANGED <<changed, ghosts>>

\* A rule keeps the number beside the recipient.  History: whether a file brought it.
Rule(id, command, phone) ==
  [ from |-> id, command |-> command, phone |-> phone, imported |-> FALSE ]

\* The number the duplicate check compares for a rule.
SenderOf(rule, all) ==
  IF rule.from \in DOMAIN all THEN all[rule.from] ELSE rule.phone

\* The duplicate check of _validated_sms_rule, for a rule of a dialogue with these rules and
\* recipients
Valid(rules, all, r, new) ==
  \A x \in DOMAIN rules \ {r} :
    ~ /\ rules[x].command = new.command
      /\ \/ rules[x].from = new.from /\ new.from # Manual
         \/ SenderOf(rules[x], all) = new.phone

\* The senders a rule may be given: a recipient on offer, or any number.
SenderChoices(offer) ==
  { <<id, offer[id]>> : id \in DOMAIN offer } \cup ({Manual} \X Phones)

\* add_sms_rule, edit_sms_rule
SaveRule(d) ==
  /\ \E r \in RuleIds, offer \in Offers(d), command \in Commands : \E from \in SenderChoices(offer) :
       LET new == Rule(from[1], command, from[2]) IN
       /\ r \in DOMAIN copies[d].rules
          \/ \A x \in RuleIds : x \in DOMAIN copies[d].rules \cup DOMAIN options.rules \/ r <= x
       /\ Valid(copies[d].rules, offer, r, new)
       /\ Edit(d, [ copies[d] EXCEPT !.rules = With(@, r, new) ])
  /\ UNCHANGED past

DeleteRules(d) ==
  /\ \E gone \in SUBSET DOMAIN copies[d].rules \ {{}} :
       Edit(d, [ copies[d] EXCEPT !.rules = Restrict(@, DOMAIN @ \ gone) ])
  /\ UNCHANGED past

\* import_sms_configuration replaces recipients and rules by those of a file: it checks
\* neither references nor numbers nor duplicates.
Import(d) ==
  /\ \E f \in Files :
       /\ Edit(d, [ copies[d] EXCEPT !.recipients = f.recipients, !.rules = f.rules ])
       /\ changed' = changed \cup DOMAIN f.recipients
                       \cup ({ f.rules[r].from : r \in DOMAIN f.rules } \ {Manual})
  /\ released' = released \cup DOMAIN copies[d].recipients
  /\ ghosts' = ghosts \cup copies[d].defaults

Form(d) ==
  \/ Messaging(d) \/ Forwarding(d) \/ Settings(d)
  \/ AddRecipient(d) \/ EditRecipient(d) \/ DeleteRecipients(d)
  \/ SaveRule(d) \/ DeleteRules(d) \/ Import(d)

Next ==
  \/ \E d \in Dialogues : OpenDialogue(d) \/ Finish(d) \/ Abandon(d)
  \/ \E d \in Open : Form(d)

Spec == Init /\ [][Next]_vars

----------------------------------------------------------------------------

Typed(o) ==
  /\ DOMAIN o.recipients \subseteq Ids /\ \A i \in DOMAIN o.recipients : o.recipients[i] \in Phones
  /\ o.defaults \subseteq Ids /\ o.forward \subseteq Ids
  /\ DOMAIN o.rules \subseteq RuleIds
  /\ \A r \in DOMAIN o.rules :
       o.rules[r].from \in Ids \cup {Manual} /\ o.rules[r].command \in Commands

TypeOK ==
  /\ Typed(options) /\ Open \subseteq Dialogues /\ \A d \in Open : Typed(copies[d])
  /\ edits \in 0 .. MaxEdits /\ released \cup changed \cup ghosts \subseteq Ids

\* Ids that may have come to mean another person or number.
Reassigned == changed \cup DOMAIN Contacts

\* In the options in force, a rule admits the number it was validated for and no other,
\* also after its recipient was deleted; unless the recipient was renumbered, its id was
\* given away again or came with an import, or an add-on contact bears it.
SendersKept ==
  \A r \in DOMAIN options.rules :
    options.rules[r].from \notin Reassigned => Admits(options, r) \subseteq {options.rules[r].phone}

\* The default recipients exist, whatever was deleted in whichever dialogue; unless they
\* were chosen after the same dialogue had deleted them, were left by an import, or are
\* contacts of the add-on, which disappear when a recipient with their number is saved.
DefaultsExist ==
  options.defaults \subseteq DOMAIN Available(options) \cup DOMAIN Contacts \cup ghosts

\* Two rules never compete for the same command of the same sender, saved for a recipient
\* or typed in; unless one file brought both.
OneRulePerCommand ==
  LET checked == { r \in DOMAIN options.rules : options.rules[r].from \notin Reassigned } IN
  \A r, x \in checked :
    /\ r # x /\ options.rules[r].command = options.rules[x].command
    /\ ~(options.rules[r].imported /\ options.rules[x].imported)
    => LET all == Available(options) IN
       SenderOf(options.rules[r], all) # SenderOf(options.rules[x], all)

\* What the dialogues leave in force refers to what it was meant to refer to.
OptionsSound == SendersKept /\ DefaultsExist /\ OneRulePerCommand
=============================================================================
