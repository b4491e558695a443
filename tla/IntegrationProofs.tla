-------------------------- MODULE IntegrationProofs --------------------------
(***************************************************************************)
(* Safety of the parts that Integration puts side by side, for any number  *)
(* of dialogues, names, phones, rules, edits, tokens and jobs.  Each part  *)
(* has an inductive invariant of its own; the SMS rules are proved in      *)
(* SmsRulesProofs.                                                         *)
(***************************************************************************)
EXTENDS Integration, WellFoundedInduction, TLAPS

----------------------------------------------------------------------------
(* Options and the dialogues that edit them (OptionsFlow).                 *)

Books    == UNION { [ D -> Phones ] : D \in SUBSET Options!Ids }
Numbers  == Phones \cup { Contacts[c] : c \in DOMAIN Contacts }
RuleType == [ from : Options!Ids \cup {Manual}, command : Commands, phone : Numbers,
              imported : BOOLEAN ]
RuleSets == UNION { [ D -> RuleType ] : D \in SUBSET RuleIds }
Configs  == [ recipients : Books, defaults : SUBSET Options!Ids, forward :
  SUBSET Options!Ids, rules : RuleSets ]

OptionsTypes ==
  /\ options \in Configs /\ Options!Open \subseteq Dialogues
       /\ copies \in [ Options!Open -> Configs ]
  /\ edits \in 0 .. MaxEdits
  /\ released \subseteq Options!Ids /\ changed \subseteq Options!Ids
       /\ ghosts \subseteq Options!Ids

\* The options in force and the working copies.
Known == {options} \cup { copies[d] : d \in Options!Open }

\* An id means the same number in all of them.
Agree ==
  \A o, q \in Known : \A i \in DOMAIN o.recipients \cap DOMAIN q.recipients :
    i \notin Options!Reassigned => o.recipients[i] = q.recipients[i]

\* A rule's recipient is in its own book or the one in force, or was deleted; a recipient
\* of that id, in whichever book, has the number the rule was saved for.
Kept(o) ==
  \A r \in DOMAIN o.rules : o.rules[r].from \notin Options!Reassigned \cup {Manual} =>
    /\ o.rules[r].from \in DOMAIN o.recipients \cup DOMAIN options.recipients \cup released
    /\ \A q \in Known : o.rules[r].from \in DOMAIN q.recipients =>
         o.rules[r].phone = q.recipients[o.rules[r].from]

\* Rules for the same command were saved for different numbers, unless both were imported.
Apart(o) ==
  \A r, x \in DOMAIN o.rules :
    /\ r # x /\ o.rules[r].command = o.rules[x].command
    /\ o.rules[r].from \notin Options!Reassigned /\ o.rules[x].from \notin Options!Reassigned
    /\ ~(o.rules[r].imported /\ o.rules[x].imported)
    => o.rules[r].phone # o.rules[x].phone

Listed(o) == o.defaults \subseteq DOMAIN o.recipients \cup DOMAIN Contacts \cup ghosts

\* No id has a number far above that of the edits so far, so that a new one can be made.
Numbered(o) == \A i \in DOMAIN o.recipients : i \in Names \X (1 .. (edits + 1))

Sound(o) == Kept(o) /\ Apart(o) /\ Listed(o) /\ Numbered(o)

OptionsInv == OptionsTypes /\ Agree /\ \A o \in Known : Sound(o)

LEMMA ContactsAre == DOMAIN Contacts \subseteq Options!Ids
  BY DEF Options!Ids

----------------------------------------------------------------------------

LEMMA BooksAre ==
  /\ \A b \in Books : /\ DOMAIN b \subseteq Options!Ids /\ \A i \in DOMAIN b : b[i] \in Phones
                      /\ b \in [ DOMAIN b -> Phones ]
  /\ \A D \in SUBSET Options!Ids : \A b \in [ D -> Phones ] : b \in Books
  BY DEF Books

LEMMA RuleSetsAre ==
  /\ \A b \in RuleSets : /\ DOMAIN b \subseteq RuleIds
                         /\ \A i \in DOMAIN b : b[i] \in RuleType
                         /\ b \in [ DOMAIN b -> RuleType ]
  /\ \A D \in SUBSET RuleIds : \A b \in [ D -> RuleType ] : b \in RuleSets
  BY DEF RuleSets

LEMMA ConfigIs ==
  ASSUME NEW o \in Configs
  PROVE  /\ o.recipients \in Books /\ o.rules \in RuleSets
         /\ o.defaults \subseteq Options!Ids /\ o.forward \subseteq Options!Ids
         /\ DOMAIN o.recipients \subseteq Options!Ids /\ DOMAIN o.rules \subseteq RuleIds
         /\ \A i \in DOMAIN o.recipients : o.recipients[i] \in Phones
         /\ \A r \in DOMAIN o.rules :
              /\ o.rules[r].from \in Options!Ids \cup {Manual}
              /\ o.rules[r].command \in Commands /\ o.rules[r].phone \in Numbers
  BY BooksAre, RuleSetsAre DEF Configs, RuleType

LEMMA KnownAre ==
  ASSUME OptionsTypes
  PROVE  /\ options \in Known /\ \A d \in Options!Open : copies[d] \in Known
         /\ Known \subseteq Configs
  BY DEF OptionsTypes, Known

LEMMA MergedIs ==
  ASSUME NEW f, NEW g
  PROVE  /\ DOMAIN Options!Merged(f, g) \subseteq DOMAIN f \cup DOMAIN g
         /\ DOMAIN f \subseteq DOMAIN Options!Merged(f, g)
         /\ \A i \in DOMAIN f : Options!Merged(f, g)[i] = f[i]
         /\ \A i \in DOMAIN Options!Merged(f, g) \ DOMAIN f :
              i \in DOMAIN g /\ Options!Merged(f, g)[i] = g[i]
  BY DEF Options!Merged

\* The recipients in force, and those a dialogue offers.
LEMMA AvailableIs ==
  ASSUME NEW o
  PROVE  /\ DOMAIN Options!Available(o) \subseteq DOMAIN o.recipients \cup DOMAIN Contacts
         /\ DOMAIN o.recipients \subseteq DOMAIN Options!Available(o)
         /\ \A i \in DOMAIN o.recipients : Options!Available(o)[i] = o.recipients[i]
         /\ \A i \in DOMAIN Options!Available(o) \ DOMAIN o.recipients :
              i \in DOMAIN Contacts /\ Options!Available(o)[i] = Contacts[i]
  BY MergedIs DEF Options!Available

LEMMA OfferedIs ==
  ASSUME NEW d, NEW offer \in Options!Offers(d)
  PROVE  /\ DOMAIN offer \subseteq
              DOMAIN copies[d].recipients \cup DOMAIN options.recipients \cup DOMAIN Contacts
         /\ DOMAIN copies[d].recipients \subseteq DOMAIN offer
         /\ \A i \in DOMAIN copies[d].recipients : offer[i] = copies[d].recipients[i]
         /\ \A i \in DOMAIN offer \ DOMAIN copies[d].recipients :
              \/ i \in DOMAIN options.recipients /\ offer[i] = options.recipients[i]
              \/ i \in DOMAIN Contacts /\ offer[i] = Contacts[i]
<1> DEFINE f == copies[d].recipients
           g == Options!Available(options)
<1>1. CASE offer = f
  BY <1>1
<1>2. ASSUME NEW known, known = options.recipients \/ known = g, offer = Options!Merged(f, known)
      PROVE  /\ DOMAIN offer \subseteq DOMAIN f \cup DOMAIN known /\ DOMAIN f \subseteq DOMAIN offer
             /\ \A i \in DOMAIN f : offer[i] = f[i]
             /\ \A i \in DOMAIN offer \ DOMAIN f : i \in DOMAIN known /\ offer[i] = known[i]
  BY <1>2, MergedIs
<1>3. /\ DOMAIN g \subseteq DOMAIN options.recipients \cup DOMAIN Contacts
      /\ \A i \in DOMAIN options.recipients : g[i] = options.recipients[i]
      /\ \A i \in DOMAIN g \ DOMAIN options.recipients : i \in DOMAIN Contacts
           /\ g[i] = Contacts[i]
  BY AvailableIs
<1>4. offer = f \/ \E known \in {options.recipients, g} : offer = Options!Merged(f, known)
  BY DEF Options!Offers
<1>5. CASE offer = Options!Merged(f, options.recipients)
  BY <1>2, <1>5
<1>6. CASE offer = Options!Merged(f, g)
  <2> HIDE DEF g
  <2> QED BY <1>2, <1>3, <1>6
<1> QED BY <1>1, <1>4, <1>5, <1>6

\* Functions made larger or smaller.
LEMMA WithIs ==
  ASSUME NEW f, NEW x, NEW v
  PROVE  /\ DOMAIN Options!With(f, x, v) = DOMAIN f \cup {x} /\ Options!With(f, x, v)[x] = v
         /\ \A y \in DOMAIN f : y # x => Options!With(f, x, v)[y] = f[y]
  BY DEF Options!With

LEMMA RestrictIs ==
  ASSUME NEW f, NEW D
  PROVE  /\ Options!Restrict(f, D) = [ x \in D |-> f[x] ]
         /\ DOMAIN Options!Restrict(f, D) = D /\ \A x \in D : Options!Restrict(f, D)[x] = f[x]
  BY DEF Options!Restrict

----------------------------------------------------------------------------
(* Opening and closing a dialogue.                                         *)

\* No configuration appears that was not known, and what becomes the options releases the
\* recipients it lacks.
LEMMA NothingNew ==
  ASSUME OptionsInv, OptionsTypes', Known' \subseteq Known, UNCHANGED <<edits, changed,
           ghosts>>,
         released \cup DOMAIN options.recipients \subseteq released' \cup DOMAIN
           options'.recipients
  PROVE  OptionsInv'
<1>1. Options!Reassigned' = Options!Reassigned
  BY DEF Options!Reassigned
<1>2. ASSUME NEW o \in Known' PROVE Kept(o)' /\ Apart(o)' /\ Listed(o)' /\ Numbered(o)'
  <2>1. o \in Known /\ Kept(o) /\ Apart(o) /\ Listed(o) /\ Numbered(o)
    BY <1>2 DEF OptionsInv, Sound
  <2>2. Kept(o)'
    BY <1>1, <2>1 DEF Kept
  <2> QED BY <1>1, <2>1, <2>2 DEF Apart, Listed, Numbered
<1>3. Agree'
  BY <1>1 DEF OptionsInv, Agree
<1> QED BY <1>2, <1>3 DEF OptionsInv, Sound

LEMMA OpenStep == ASSUME OptionsInv, NEW d \in Dialogues,
  Options!OpenDialogue(d) PROVE OptionsInv'
<1>1. /\ copies' = [ x \in Options!Open \cup {d} |-> IF x = d THEN options ELSE copies[x] ]
      /\ UNCHANGED <<options, edits, released, changed, ghosts>>
  BY DEF Options!OpenDialogue, Options!past
<1>2. /\ Options!Open' = Options!Open \cup {d}
      /\ \A x \in Options!Open' :
           copies'[x] = options \/ (x \in Options!Open /\ copies'[x] = copies[x])
  <2>1. Options!Open' = Options!Open \cup {d}
    BY <1>1 DEF Options!Open
  <2>2. ASSUME NEW x \in Options!Open \cup {d}
        PROVE  copies'[x] = options \/ (x \in Options!Open /\ copies'[x] = copies[x])
    BY <1>1
  <2> QED BY <2>1, <2>2
<1>3. copies' \in [ Options!Open' -> Configs ]
  BY <1>1, <1>2 DEF OptionsInv, OptionsTypes
<1>4. OptionsTypes'
  BY <1>1, <1>2, <1>3 DEF OptionsInv, OptionsTypes
<1>5. Known' \subseteq Known
  BY <1>1, <1>2 DEF Known
<1> QED BY <1>1, <1>4, <1>5, NothingNew

LEMMA CloseStep == ASSUME OptionsInv, NEW d,
  Options!Finish(d) \/ Options!Abandon(d) PROVE OptionsInv'
<1>1. /\ d \in Options!Open /\ copies' = Options!Restrict(copies, Options!Open \ {d})
      /\ UNCHANGED <<edits, changed, ghosts>> /\ released \subseteq released'
  BY DEF Options!Finish, Options!Abandon, Options!past
<1>2. Options!Open' = Options!Open \ {d} /\ \A x \in Options!Open' : x \in Options!Open
        /\ copies'[x] = copies[x]
  BY <1>1, RestrictIs DEF Options!Open
<1>3. copies' \in [ Options!Open' -> Configs ]
  BY <1>1, <1>2, RestrictIs DEF OptionsInv, OptionsTypes
<1>4. options' \in Known /\ released' \subseteq Options!Ids
  <2>1. DOMAIN options.recipients \subseteq Options!Ids
    BY KnownAre, ConfigIs DEF OptionsInv
  <2> QED BY <1>1, <2>1 DEF Options!Finish, Options!Abandon, Options!past, Known, OptionsInv,
        OptionsTypes
<1>5. OptionsTypes'
  BY <1>1, <1>2, <1>3, <1>4, KnownAre DEF OptionsInv, OptionsTypes
<1>6. Known' \subseteq Known
  BY <1>2, <1>4 DEF Known
<1>7. released \cup DOMAIN options.recipients \subseteq released' \cup DOMAIN
        options'.recipients
  BY DEF Options!Finish, Options!Abandon, Options!past
<1> QED BY <1>1, <1>5, <1>6, <1>7, NothingNew

----------------------------------------------------------------------------
(* A form replaces the working copy of its dialogue.                       *)

LEMMA EditIs ==
  ASSUME OptionsTypes, MaxEdits \in Nat, NEW d \in Options!Open, NEW o \in Configs,
           Options!Edit(d, o)
  PROVE  /\ Options!Open' = Options!Open /\ options' = options /\ edits' = edits + 1
              /\ edits' \in 0 .. MaxEdits
         /\ edits \in 0 .. (MaxEdits - 1)
         /\ copies' \in [ Options!Open' -> Configs ] /\ copies'[d] = o
         /\ \A x \in Options!Open \ {d} : copies'[x] = copies[x]
         /\ \A q \in Known' : q = o \/ q \in Known
  <1>1. /\ Options!Open' = Options!Open /\ options' = options /\ copies'[d] = o
        /\ copies' \in [ Options!Open' -> Configs ]
        /\ \A x \in Options!Open \ {d} : copies'[x] = copies[x]
    BY DEF Options!Edit, OptionsTypes, Options!Open
  <1>2. /\ edits' = edits + 1 /\ edits' \in 0 .. MaxEdits /\ edits \in 0 .. (MaxEdits - 1)
    BY DEF Options!Edit, OptionsTypes
  <1>3. \A q \in Known' : q = o \/ q \in Known
    BY <1>1 DEF Known
  <1> QED BY <1>1, <1>2, <1>3

\* What a form must see to: the recipients of the new copy are those of the old one, new
\* ones under ids nobody bears, or reassigned; what it drops is released; rules are kept or
\* saved for a number that was offered; the lists and the numbers of ids stay sound.
LEMMA EditKeeps ==
  ASSUME OptionsInv, MaxEdits \in Nat, NEW d \in Options!Open, NEW o \in Configs,
           Options!Edit(d, o),
         released \subseteq released', changed \subseteq changed', ghosts \subseteq ghosts',
         released' \subseteq Options!Ids, changed' \subseteq Options!Ids,
           ghosts' \subseteq Options!Ids,
         \A i \in DOMAIN o.recipients : i \notin changed' =>
           \/ i \in DOMAIN copies[d].recipients /\ o.recipients[i] = copies[d].recipients[i]
           \/ i \notin released \cup Options!Borne,
         DOMAIN copies[d].recipients \subseteq DOMAIN o.recipients \cup released',
         \A r \in DOMAIN o.rules :
           o.rules[r].from \notin changed' \cup DOMAIN Contacts \cup {Manual} =>
           \/ r \in DOMAIN copies[d].rules /\ o.rules[r] = copies[d].rules[r]
           \/ \E q \in {options, copies[d]} : /\ o.rules[r].from \in DOMAIN q.recipients
                                              /\ o.rules[r].phone =
                                                   q.recipients[o.rules[r].from]
                                              /\ o.recipients = copies[d].recipients,
         Apart(o)', Listed(o)', Numbered(o)'
  PROVE  OptionsInv'
<1> DEFINE c == copies[d]
<1>1. /\ Options!Open' = Options!Open /\ options' = options /\ edits' = edits + 1
           /\ edits' \in 0 .. MaxEdits
      /\ edits \in 0 .. (MaxEdits - 1)
      /\ copies' \in [ Options!Open' -> Configs ] /\ copies'[d] = o
      /\ \A x \in Options!Open \ {d} : copies'[x] = copies[x]
      /\ \A q \in Known' : q = o \/ q \in Known
  BY EditIs DEF OptionsInv
<1>2. OptionsTypes'
  BY <1>1 DEF OptionsInv, OptionsTypes
<1>3. /\ c \in Known /\ options \in Known /\ Kept(c)
      /\ \A q \in Known : Kept(q) /\ Apart(q) /\ Listed(q) /\ Numbered(q)
      /\ options \in Known'
  BY <1>1, KnownAre DEF OptionsInv, Sound, Known
<1>4. Options!Reassigned \subseteq Options!Reassigned'
        /\ Options!Reassigned' = changed' \cup DOMAIN Contacts
  BY DEF Options!Reassigned
<1>5. \A q \in Known : DOMAIN q.recipients \subseteq Options!Borne
  BY DEF Known, Options!Borne
<1> HIDE DEF c
\* A recipient of the new copy agrees with every other one of its id.
<1>6. ASSUME NEW i \in DOMAIN o.recipients, i \notin Options!Reassigned', NEW q \in Known,
             i \in DOMAIN q.recipients
      PROVE  o.recipients[i] = q.recipients[i]
  <2>1. i \in DOMAIN c.recipients /\ o.recipients[i] = c.recipients[i]
    BY <1>4, <1>5, <1>6 DEF c
  <2> QED BY <1>3, <1>4, <1>6, <2>1 DEF OptionsInv, Agree
<1>7. Agree'
  <2> SUFFICES ASSUME NEW p \in Known', NEW q \in Known',
                      NEW i \in DOMAIN p.recipients \cap DOMAIN q.recipients,
                        i \notin Options!Reassigned'
               PROVE  p.recipients[i] = q.recipients[i]
    BY DEF Agree
  <2>1. CASE p \in Known /\ q \in Known
    BY <1>4, <2>1 DEF OptionsInv, Agree
  <2> QED BY <1>1, <1>6, <2>1
\* A number a rule was saved for agrees with every book.
<1>8. ASSUME NEW rule \in RuleType, rule.from \notin Options!Reassigned',
             rule.from \in released \cup Options!Borne,
             \A q \in Known : rule.from \in DOMAIN q.recipients =>
               rule.phone = q.recipients[rule.from]
      PROVE  \A q \in Known' : rule.from \in DOMAIN q.recipients =>
               rule.phone = q.recipients[rule.from]
  <2> SUFFICES ASSUME rule.from \in DOMAIN o.recipients
               PROVE rule.phone = o.recipients[rule.from]
    BY <1>1, <1>8
  <2>1. rule.from \in DOMAIN c.recipients /\ o.recipients[rule.from] = c.recipients[rule.from]
    BY <1>4, <1>8 DEF c
  <2> QED BY <1>3, <1>8, <2>1
<1>a. DOMAIN c.recipients \cup DOMAIN options.recipients \subseteq Options!Borne
  BY <1>3, <1>5
<1>9. ASSUME NEW q \in Known PROVE Kept(q)'
  <2> SUFFICES ASSUME NEW r \in DOMAIN q.rules,
                      q.rules[r].from \notin Options!Reassigned' \cup {Manual}
               PROVE  /\ q.rules[r].from \in DOMAIN q.recipients \cup DOMAIN
                           options'.recipients \cup released'
                      /\ \A p \in Known' : q.rules[r].from \in DOMAIN p.recipients =>
                           q.rules[r].phone = p.recipients[q.rules[r].from]
    BY DEF Kept
  <2>1. q.rules[r] \in RuleType
    BY ConfigIs, KnownAre, RuleSetsAre DEF OptionsInv
  <2>2. /\ q.rules[r].from \in DOMAIN q.recipients \cup DOMAIN options.recipients \cup
             released
        /\ \A p \in Known : q.rules[r].from \in DOMAIN p.recipients =>
             q.rules[r].phone = p.recipients[q.rules[r].from]
    BY <1>3, <1>4 DEF Kept
  <2>3. q.rules[r].from \in released \cup Options!Borne
    BY <1>5, <1>a, <2>2
  <2>4. \A p \in Known' : q.rules[r].from \in DOMAIN p.recipients =>
          q.rules[r].phone = p.recipients[q.rules[r].from]
    BY <1>8, <2>1, <2>2, <2>3
  <2> QED BY <1>1, <2>2, <2>4
<1>10. Kept(o)'
  <2> SUFFICES ASSUME NEW r \in DOMAIN o.rules,
                      o.rules[r].from \notin Options!Reassigned' \cup {Manual}
               PROVE  /\ o.rules[r].from \in DOMAIN o.recipients \cup DOMAIN
                           options'.recipients \cup released'
                      /\ \A p \in Known' : o.rules[r].from \in DOMAIN p.recipients =>
                           o.rules[r].phone = p.recipients[o.rules[r].from]
    BY DEF Kept
  <2>1. o.rules[r] \in RuleType
    BY ConfigIs, RuleSetsAre
  <2>2. CASE r \in DOMAIN c.rules /\ o.rules[r] = c.rules[r]
    <3>1. /\ o.rules[r].from \in DOMAIN c.recipients \cup DOMAIN options.recipients \cup
               released
          /\ \A p \in Known : o.rules[r].from \in DOMAIN p.recipients =>
               o.rules[r].phone = p.recipients[o.rules[r].from]
      BY <1>3, <1>4, <2>2 DEF Kept
    <3>2. DOMAIN c.recipients \subseteq DOMAIN o.recipients \cup released'
      BY DEF c
    <3>3. o.rules[r].from \in released \cup Options!Borne
      BY <1>a, <3>1
    <3>4. \A p \in Known' : o.rules[r].from \in DOMAIN p.recipients =>
            o.rules[r].phone = p.recipients[o.rules[r].from]
      BY <1>8, <2>1, <3>1, <3>3
    <3> QED BY <1>1, <3>1, <3>2, <3>4
  <2>3. CASE \E q \in {options, c} : /\ o.rules[r].from \in DOMAIN q.recipients
                                     /\ o.rules[r].phone = q.recipients[o.rules[r].from]
                                     /\ o.recipients = c.recipients
    <3>1. PICK q \in {options, c} : /\ o.rules[r].from \in DOMAIN q.recipients
                                    /\ o.rules[r].phone = q.recipients[o.rules[r].from]
                                    /\ o.recipients = c.recipients
      BY <2>3
    <3>2. q \in Known
      BY <1>3
    <3>3. \A p \in Known : o.rules[r].from \in DOMAIN p.recipients =>
            o.rules[r].phone = p.recipients[o.rules[r].from]
      BY <1>4, <3>1, <3>2 DEF OptionsInv, Agree
    <3>4. o.rules[r].from \in released \cup Options!Borne
      BY <1>5, <3>1, <3>2
    <3>5. \A p \in Known' : o.rules[r].from \in DOMAIN p.recipients =>
            o.rules[r].phone = p.recipients[o.rules[r].from]
      BY <1>8, <2>1, <3>3, <3>4
    <3> QED BY <1>1, <3>1, <3>5
  <2> QED BY <1>4, <2>2, <2>3 DEF c
<1>11. ASSUME NEW q \in Known PROVE Apart(q)' /\ Listed(q)' /\ Numbered(q)'
  <2>1. Apart(q) /\ Listed(q) /\ Numbered(q)
    BY <1>3
  <2>2. Numbered(q)'
    BY <1>1, <2>1 DEF Numbered
  <2> QED BY <1>4, <2>1, <2>2 DEF Apart, Listed
<1> QED BY <1>1, <1>2, <1>7, <1>9, <1>10, <1>11 DEF OptionsInv, Sound

----------------------------------------------------------------------------
(* The forms.                                                              *)

Below == { p \in Nat \X Nat : p[1] < p[2] }

\* A set of natural numbers has a least one.
LEMMA LeastIs ==
  ASSUME NEW S \in SUBSET Nat, S # {}
  PROVE  \E k \in S : \A j \in S : k <= j
<1>1. OpToRel(<, Nat) = Below
  BY DEF OpToRel, Below
<1>2. IsWellFoundedOn(Below, Nat)
  BY <1>1, NatLessThanWellFounded
<1>3. PICK k \in S : \A j \in S : ~(<<j, k>> \in Below)
  BY <1>2, WFMin
<1>4. ASSUME NEW j \in S PROVE k <= j
  <2>1. <<j, k>> \in Nat \X Nat /\ ~(<<j, k>> \in Below)
    BY <1>3
  <2>2. ~(j < k)
    BY <2>1 DEF Below
  <2> QED BY <2>2
<1> QED BY <1>4

\* make_recipient_id finds an id of that name that is new.
LEMMA NewIdIs ==
  ASSUME NEW name \in Names, NEW existing, NEW n \in Nat, n <= MaxEdits, MaxEdits \in Nat,
         \A i \in existing : i \in Names \X (1 .. n)
  PROVE  /\ Options!NewId(name, existing) \in Options!Made
         /\ Options!NewId(name, existing) \notin existing
         /\ Options!NewId(name, existing) \in Names \X (1 .. (n + 1))
<1> DEFINE Free == { k \in Nat : k >= 1 /\ <<name, k>> \notin existing }
<1>1. n + 1 \in Free
  <2>1. <<name, n + 1>> \notin existing
    <3>1. ASSUME <<name, n + 1>> \in existing PROVE FALSE
      <4>1. <<name, n + 1>> \in Names \X (1 .. n)
        BY <3>1
      <4>2. n + 1 \in 1 .. n
        BY <4>1
      <4> QED BY <4>2
    <3> QED BY <3>1
  <2> QED BY <2>1
<1>2. PICK k \in Free : \A j \in Free : k <= j
  <2>1. Free \in SUBSET Nat /\ Free # {}
    BY <1>1
  <2> HIDE DEF Free
  <2> QED BY <2>1, LeastIs
<1>4. k \in Nat /\ k >= 1 /\ k <= n + 1 /\ <<name, k>> \notin existing
  BY <1>1, <1>2
<1>5. \A j \in 1 .. (k - 1) : <<name, j>> \in existing
  BY <1>2, <1>4
<1> DEFINE id == <<name, k>>
<1>6. id \in Options!Made /\ id[1] = name /\ id[2] = k /\ id \notin existing
  BY <1>4 DEF Options!Made
<1>7. \E x \in Options!Made : /\ x[1] = name /\ x \notin existing
                      /\ \A j \in 1 .. (x[2] - 1) : <<name, j>> \in existing
  BY <1>5, <1>6
<1> DEFINE new == Options!NewId(name, existing)
<1>8. /\ new \in Options!Made /\ new[1] = name /\ new \notin existing
      /\ \A j \in 1 .. (new[2] - 1) : <<name, j>> \in existing
  BY <1>7 DEF Options!NewId
<1>9. new[2] \in 1 .. (MaxEdits + 2) /\ new = <<name, new[2]>>
  BY <1>8 DEF Options!Made
<1>10. new[2] <= k
  <2>1. CASE k <= new[2] - 1
    <3>1. k \in 1 .. (new[2] - 1)
      BY <1>4, <1>9, <2>1
    <3> QED BY <1>4, <1>8, <3>1
  <2> QED BY <1>4, <1>9, <2>1
<1>11. new[2] \in 1 .. (n + 1)
  BY <1>4, <1>9, <1>10
<1> QED BY <1>8, <1>9, <1>11

\* One field of a configuration is replaced, or two.
LEMMA ForwardSet ==
  ASSUME NEW c \in Configs, NEW v \in SUBSET Options!Ids, NEW o,
         o = [ c EXCEPT !.forward = v ]
  PROVE  o \in Configs /\ o.recipients = c.recipients /\ o.rules = c.rules
           /\ o.defaults = c.defaults
  BY DEF Configs

LEMMA RecipientsSet ==
  ASSUME NEW c \in Configs, NEW v \in Books, NEW o,
         o = [ c EXCEPT !.recipients = v ]
  PROVE  o \in Configs /\ o.recipients = v /\ o.rules = c.rules /\ o.defaults = c.defaults
  BY DEF Configs

LEMMA RulesSet ==
  ASSUME NEW c \in Configs, NEW v \in RuleSets, NEW o,
         o = [ c EXCEPT !.rules = v ]
  PROVE  o \in Configs /\ o.recipients = c.recipients /\ o.rules = v
           /\ o.defaults = c.defaults
  BY DEF Configs

LEMMA CopyIs ==
  ASSUME OptionsInv, NEW d \in Options!Open
  PROVE  copies[d] \in Configs /\ Kept(copies[d]) /\ Apart(copies[d]) /\ Listed(copies[d])
           /\ Numbered(copies[d])
  BY KnownAre DEF OptionsInv, Sound

\* A form that leaves recipients and rules alone.
LEMMA ListStep ==
  ASSUME OptionsInv, MaxEdits \in Nat, NEW d \in Options!Open, NEW o \in Configs,
           Options!Edit(d, o),
         released' = released, changed' = changed, ghosts \subseteq ghosts',
           ghosts' \subseteq Options!Ids,
         o.recipients = copies[d].recipients, o.rules = copies[d].rules, Listed(o)'
  PROVE  OptionsInv'
<1>1. Apart(o)'
  BY CopyIs DEF Apart, Options!Reassigned
<1>2. edits' = edits + 1 /\ edits \in 0 .. (MaxEdits - 1)
  BY EditIs DEF OptionsInv
<1>3. Numbered(o)'
  BY <1>2, CopyIs DEF Numbered
<1> QED BY <1>1, <1>3, EditKeeps DEF OptionsInv, OptionsTypes

LEMMA MessagingStep ==
  ASSUME OptionsInv, MaxEdits \in Nat, NEW d \in Options!Open,
           Options!Messaging(d) PROVE OptionsInv'
<1>0. PICK offer \in Options!Offers(d) : \E ids \in SUBSET DOMAIN offer :
        /\ Options!Edit(d, [ copies[d] EXCEPT !.defaults = ids ])
        /\ ghosts' = ghosts \cup (ids \ DOMAIN Options!Available(copies[d]))
  BY DEF Options!Messaging
<1>1. PICK ids \in SUBSET DOMAIN offer :
        /\ Options!Edit(d, [ copies[d] EXCEPT !.defaults = ids ])
        /\ ghosts' = ghosts \cup (ids \ DOMAIN Options!Available(copies[d]))
  BY <1>0
<1>2. released' = released /\ changed' = changed
  BY DEF Options!Messaging
<1>3. copies[d] \in Configs /\ options \in Configs
  BY CopyIs, KnownAre DEF OptionsInv
<1>4. ids \in SUBSET Options!Ids
  BY <1>3, OfferedIs, ConfigIs, ContactsAre
<1>a. PICK o : o = [ copies[d] EXCEPT !.defaults = ids ]
  OBVIOUS
<1>5. /\ o \in Configs /\ o.recipients = copies[d].recipients /\ o.rules = copies[d].rules
      /\ o.defaults = ids
  BY <1>3, <1>4, <1>a DEF Configs
<1>6. Options!Edit(d, o)
  BY <1>1, <1>a
<1>7. ids \subseteq DOMAIN o.recipients \cup DOMAIN Contacts \cup ghosts'
  BY <1>1, <1>5, AvailableIs
<1>8. Listed(o)'
  BY <1>5, <1>7 DEF Listed
<1>9. ghosts \subseteq ghosts' /\ ghosts' \subseteq Options!Ids
  BY <1>1, <1>4 DEF OptionsInv, OptionsTypes
<1> QED BY <1>2, <1>5, <1>6, <1>8, <1>9, ListStep

LEMMA ForwardingStep ==
  ASSUME OptionsInv, MaxEdits \in Nat, NEW d \in Options!Open,
           Options!Forwarding(d) PROVE OptionsInv'
<1>0. PICK offer \in Options!Offers(d) : \E ids \in {{}, DOMAIN offer} :
        Options!Edit(d, [ copies[d] EXCEPT !.forward = ids ])
  BY DEF Options!Forwarding
<1>1. PICK ids \in {{}, DOMAIN offer} :
        Options!Edit(d, [ copies[d] EXCEPT !.forward = ids ])
  BY <1>0
<1>2. released' = released /\ changed' = changed /\ ghosts' = ghosts
  BY DEF Options!Forwarding, Options!past
<1>3. copies[d] \in Configs /\ options \in Configs
  BY CopyIs, KnownAre DEF OptionsInv
<1>4. ids \subseteq Options!Ids
  BY <1>3, OfferedIs, ConfigIs, ContactsAre
<1>a. PICK o : o = [ copies[d] EXCEPT !.forward = ids ]
  OBVIOUS
<1>5. /\ o \in Configs /\ o.recipients = copies[d].recipients /\ o.rules = copies[d].rules
      /\ o.defaults = copies[d].defaults
  BY <1>3, <1>4, <1>a, ForwardSet
<1>6. Options!Edit(d, o)
  BY <1>1, <1>a
<1>7. Listed(o)'
  BY <1>2, <1>5, CopyIs DEF Listed
<1> QED BY <1>2, <1>5, <1>6, <1>7, ListStep DEF OptionsInv, OptionsTypes

\* A form that replaces the recipients, and the defaults by fewer.
LEMMA BookStep ==
  ASSUME OptionsInv, MaxEdits \in Nat, NEW d \in Options!Open, NEW o \in Configs,
           Options!Edit(d, o),
         released \subseteq released', changed \subseteq changed', ghosts' = ghosts,
         released' \subseteq Options!Ids, changed' \subseteq Options!Ids,
         o.rules = copies[d].rules, o.defaults \subseteq copies[d].defaults,
         \A i \in DOMAIN o.recipients : i \notin changed' =>
           \/ i \in DOMAIN copies[d].recipients /\ o.recipients[i] = copies[d].recipients[i]
           \/ i \notin released \cup Options!Borne,
         DOMAIN copies[d].recipients
           \subseteq DOMAIN o.recipients \cup (released' \ o.defaults),
         \A i \in DOMAIN o.recipients : i \in Names \X (1 .. (edits + 2))
  PROVE  OptionsInv'
<1>1. Apart(o)'
  BY CopyIs DEF Apart, Options!Reassigned
<1>2. edits' = edits + 1 /\ edits \in 0 .. (MaxEdits - 1)
  BY EditIs DEF OptionsInv
<1>3. Numbered(o)'
  BY <1>2 DEF Numbered
<1>4. Listed(o)'
  BY CopyIs DEF Listed
<1> QED BY <1>1, <1>3, <1>4, EditKeeps DEF OptionsInv, OptionsTypes

LEMMA AddStep ==
  ASSUME OptionsInv, MaxEdits \in Nat, NEW d \in Options!Open,
           Options!AddRecipient(d) PROVE OptionsInv'
<1>1. PICK name \in Names, phone \in Phones :
        LET id == Options!NewId(name, DOMAIN copies[d].recipients) IN
        /\ Options!Edit(d, [ copies[d] EXCEPT !.recipients = Options!With(@, id, phone) ])
        /\ changed' = changed \cup (({id} \cap (released \cup Options!Borne))
                                      \ DOMAIN copies[d].recipients)
  BY DEF Options!AddRecipient
<1> DEFINE id == Options!NewId(name, DOMAIN copies[d].recipients)
           book == Options!With(copies[d].recipients, id, phone)
<1>a. PICK o : o = [ copies[d] EXCEPT !.recipients = book ]
  OBVIOUS
<1>2. /\ Options!Edit(d, o)
      /\ changed' = changed \cup (({id} \cap (released \cup Options!Borne))
                                    \ DOMAIN copies[d].recipients)
  BY <1>1, <1>a
<1>3. released' = released /\ ghosts' = ghosts
  BY DEF Options!AddRecipient
<1>4. copies[d] \in Configs /\ Numbered(copies[d])
  BY CopyIs
<1>5. edits \in Nat /\ edits < MaxEdits
  BY <1>2 DEF Options!Edit, OptionsInv, OptionsTypes
<1>6. id \in Options!Made /\ id \notin DOMAIN copies[d].recipients
        /\ id \in Names \X (1 .. (edits + 2))
  <2>1. \A i \in DOMAIN copies[d].recipients : i \in Names \X (1 .. (edits + 1))
    BY <1>4 DEF Numbered
  <2>2. edits + 1 \in Nat /\ edits + 1 <= MaxEdits /\ (edits + 1) + 1 = edits + 2
    BY <1>5
  <2> QED BY <2>1, <2>2, NewIdIs
<1> HIDE DEF id
<1>7. /\ DOMAIN book = DOMAIN copies[d].recipients \cup {id} /\ book[id] = phone
      /\ \A y \in DOMAIN copies[d].recipients : book[y] = copies[d].recipients[y]
  BY <1>6 DEF Options!With
<1>8. book \in Books
  <2>1. book \in [ DOMAIN copies[d].recipients \cup {id} -> Phones ]
    BY <1>4, ConfigIs DEF Options!With
  <2>2. DOMAIN copies[d].recipients \cup {id} \in SUBSET Options!Ids
    BY <1>4, <1>6, ConfigIs DEF Options!Ids
  <2> QED BY <2>1, <2>2, BooksAre
<1>9. /\ o \in Configs /\ o.recipients = book /\ o.rules = copies[d].rules
      /\ o.defaults = copies[d].defaults
  BY <1>4, <1>8, <1>a, RecipientsSet
<1> HIDE DEF book
<1>10. \A i \in DOMAIN book : i \in Names \X (1 .. (edits + 2))
  BY <1>4, <1>5, <1>6, <1>7 DEF Numbered
<1>11. \A i \in DOMAIN book : i \notin changed' =>
           \/ i \in DOMAIN copies[d].recipients /\ book[i] = copies[d].recipients[i]
           \/ i \notin released \cup Options!Borne
  BY <1>2, <1>6, <1>7
<1>12. changed \subseteq changed' /\ changed' \subseteq Options!Ids
         /\ released' \subseteq Options!Ids
  BY <1>2, <1>3, <1>6 DEF OptionsInv, OptionsTypes, Options!Ids
<1> QED BY <1>2, <1>3, <1>7, <1>9, <1>10, <1>11, <1>12, BookStep

LEMMA RenumberStep ==
  ASSUME OptionsInv, MaxEdits \in Nat, NEW d \in Options!Open,
           Options!EditRecipient(d) PROVE OptionsInv'
<1>1. PICK id \in DOMAIN copies[d].recipients, phone \in Phones :
        /\ Options!Edit(d, [ copies[d] EXCEPT !.recipients[id] = phone ])
        /\ changed' = changed \cup {id}
  BY DEF Options!EditRecipient
<1>2. released' = released /\ ghosts' = ghosts
  BY DEF Options!EditRecipient
<1>3. copies[d] \in Configs /\ Numbered(copies[d])
  BY CopyIs
<1> DEFINE book == [ copies[d].recipients EXCEPT ![id] = phone ]
<1>a. PICK o : o = [ copies[d] EXCEPT !.recipients = book ]
  OBVIOUS
<1>4. Options!Edit(d, o)
  BY <1>1, <1>a
<1>5. /\ DOMAIN book = DOMAIN copies[d].recipients
      /\ \A y \in DOMAIN copies[d].recipients : y # id => book[y] = copies[d].recipients[y]
  OBVIOUS
<1>6. book \in Books
  <2>1. book \in [ DOMAIN copies[d].recipients -> Phones ]
    BY <1>3, ConfigIs, BooksAre
  <2>2. DOMAIN copies[d].recipients \in SUBSET Options!Ids
    BY <1>3, ConfigIs
  <2> QED BY <2>1, <2>2, BooksAre
<1>7. /\ o \in Configs /\ o.recipients = book /\ o.rules = copies[d].rules
      /\ o.defaults = copies[d].defaults
  BY <1>3, <1>6, <1>a, RecipientsSet
<1> HIDE DEF book
<1>8. edits \in Nat
  BY DEF OptionsInv, OptionsTypes
<1>9. \A i \in DOMAIN book : i \in Names \X (1 .. (edits + 2))
  BY <1>3, <1>5, <1>8 DEF Numbered
<1>10. changed \subseteq changed' /\ changed' \subseteq Options!Ids
         /\ released' \subseteq Options!Ids
  BY <1>1, <1>2, <1>3, ConfigIs DEF OptionsInv, OptionsTypes
<1>11. \A i \in DOMAIN book : i \notin changed' =>
         i \in DOMAIN copies[d].recipients /\ book[i] = copies[d].recipients[i]
  BY <1>1, <1>5
<1> QED BY <1>2, <1>4, <1>5, <1>7, <1>9, <1>10, <1>11, BookStep

LEMMA DeleteStep ==
  ASSUME OptionsInv, MaxEdits \in Nat, NEW d \in Options!Open,
           Options!DeleteRecipients(d) PROVE OptionsInv'
<1> DEFINE c == copies[d]
<1>1. PICK gone \in SUBSET DOMAIN c.recipients :
        /\ Options!Edit(d, [ c EXCEPT !.recipients = Options!Restrict(@, DOMAIN @ \ gone),
                              !.defaults = Options!Cleaned(@, gone) ])
        /\ released' = released \cup gone
  BY DEF Options!DeleteRecipients
<1>2. changed' = changed /\ ghosts' = ghosts
  BY DEF Options!DeleteRecipients
<1>3. c \in Configs /\ Numbered(c)
  BY CopyIs
<1> DEFINE rest == DOMAIN c.recipients \ gone
           book == Options!Restrict(c.recipients, rest)
           list == Options!Cleaned(c.defaults, gone)
<1>a. PICK o : o = [ c EXCEPT !.recipients = book, !.defaults = list ]
  OBVIOUS
<1>4. Options!Edit(d, o)
  BY <1>1, <1>a
<1>5. /\ DOMAIN book = DOMAIN c.recipients \ gone
      /\ \A y \in DOMAIN book : book[y] = c.recipients[y]
      /\ list = c.defaults \ gone
  BY RestrictIs DEF Options!Cleaned
<1>6. book \in Books /\ list \in SUBSET Options!Ids
  <2>1. book \in [ rest -> Phones ]
    BY <1>3, ConfigIs, RestrictIs
  <2>2. rest \in SUBSET Options!Ids /\ list \in SUBSET Options!Ids
    BY <1>3, <1>5, ConfigIs
  <2> QED BY <2>1, <2>2, BooksAre
<1>7. o \in Configs /\ o.recipients = book /\ o.rules = c.rules /\ o.defaults = list
  <2> HIDE DEF c, book, list, rest
  <2> QED BY <1>3, <1>6, <1>a DEF Configs
<1> HIDE DEF book, list, rest
<1>8. edits \in Nat
  BY DEF OptionsInv, OptionsTypes
<1>9. \A i \in DOMAIN book : i \in Names \X (1 .. (edits + 2))
  BY <1>3, <1>5, <1>8 DEF Numbered
<1>10. changed' \subseteq Options!Ids /\ released \subseteq released'
         /\ released' \subseteq Options!Ids
  BY <1>1, <1>2, <1>3, ConfigIs DEF OptionsInv, OptionsTypes
<1>11. DOMAIN c.recipients \subseteq DOMAIN book \cup (released' \ list)
  BY <1>1, <1>5
<1> QED BY <1>1, <1>2, <1>4, <1>5, <1>7, <1>9, <1>10, <1>11, BookStep

\* What a dialogue offers under an id that is not reassigned, and the number the duplicate
\* check compares for a rule of the copy.
LEMMA OfferedNumber ==
  ASSUME OptionsInv, NEW d \in Options!Open, NEW offer \in Options!Offers(d),
         NEW i \in DOMAIN offer, i \notin Options!Reassigned
  PROVE  /\ \E q \in {options, copies[d]} : i \in DOMAIN q.recipients /\ offer[i] = q.recipients[i]
         /\ i # Manual
<1>1. \E q \in {options, copies[d]} : i \in DOMAIN q.recipients /\ offer[i] = q.recipients[i]
  BY OfferedIs DEF Options!Reassigned
<1>2. options \in Configs /\ copies[d] \in Configs
  BY KnownAre DEF OptionsInv
<1> QED BY <1>1, <1>2, ConfigIs, ManualAssumption

LEMMA SenderIs ==
  ASSUME OptionsInv, NEW d \in Options!Open, NEW offer \in Options!Offers(d),
         NEW r \in DOMAIN copies[d].rules, copies[d].rules[r].from \notin Options!Reassigned
  PROVE  Options!SenderOf(copies[d].rules[r], offer) = copies[d].rules[r].phone
<1> DEFINE from == copies[d].rules[r].from
<1>1. from # Manual => \A q \in Known : from \in DOMAIN q.recipients =>
        copies[d].rules[r].phone = q.recipients[from]
  BY CopyIs DEF Kept
<1>2. options \in Known /\ copies[d] \in Known
  BY KnownAre DEF OptionsInv
<1>3. from \in DOMAIN offer => offer[from] = copies[d].rules[r].phone
  BY <1>1, <1>2, OfferedNumber
<1> QED BY <1>3 DEF Options!SenderOf

\* A form that replaces the rules by sound ones.
LEMMA RulesStep ==
  ASSUME OptionsInv, MaxEdits \in Nat, NEW d \in Options!Open, NEW o \in Configs,
           Options!Edit(d, o),
         released' = released, changed' = changed, ghosts' = ghosts,
         o.recipients = copies[d].recipients, o.defaults = copies[d].defaults,
         \A r \in DOMAIN o.rules : o.rules[r].from \notin Options!Reassigned \cup {Manual} =>
           \/ r \in DOMAIN copies[d].rules /\ o.rules[r] = copies[d].rules[r]
           \/ \E q \in {options, copies[d]} :
                /\ o.rules[r].from \in DOMAIN q.recipients
                /\ o.rules[r].phone = q.recipients[o.rules[r].from],
         Apart(o)
  PROVE  OptionsInv'
<1>1. Apart(o)'
  BY DEF Apart, Options!Reassigned
<1>2. edits' = edits + 1 /\ edits \in 0 .. (MaxEdits - 1)
  BY EditIs DEF OptionsInv
<1>3. Numbered(o)'
  BY <1>2, CopyIs DEF Numbered
<1>4. Listed(o)'
  BY CopyIs DEF Listed
<1> QED BY <1>1, <1>3, <1>4, EditKeeps DEF OptionsInv, OptionsTypes, Options!Reassigned

LEMMA DeleteRulesStep ==
  ASSUME OptionsInv, MaxEdits \in Nat, NEW d \in Options!Open,
           Options!DeleteRules(d) PROVE OptionsInv'
<1> DEFINE c == copies[d]
<1>1. PICK gone \in SUBSET DOMAIN c.rules :
        Options!Edit(d, [ c EXCEPT !.rules = Options!Restrict(@, DOMAIN @ \ gone) ])
  BY DEF Options!DeleteRules
<1>2. released' = released /\ changed' = changed /\ ghosts' = ghosts
  BY DEF Options!DeleteRules, Options!past
<1>3. c \in Configs /\ Apart(c)
  BY CopyIs
<1> DEFINE rest == DOMAIN c.rules \ gone
           rules == Options!Restrict(c.rules, rest)
<1>a. PICK o : o = [ c EXCEPT !.rules = rules ]
  OBVIOUS
<1>4. Options!Edit(d, o)
  BY <1>1, <1>a
<1>5. /\ DOMAIN rules = rest /\ \A y \in rest : rules[y] = c.rules[y]
      /\ rest \subseteq DOMAIN c.rules
  BY RestrictIs
<1>6. rules \in RuleSets
  <2>1. rules \in [ rest -> RuleType ]
    BY <1>3, ConfigIs, RestrictIs, RuleSetsAre
  <2>2. rest \in SUBSET RuleIds
    BY <1>3, ConfigIs
  <2> QED BY <2>1, <2>2, RuleSetsAre
<1>7. /\ o \in Configs /\ o.recipients = c.recipients /\ o.rules = rules
      /\ o.defaults = c.defaults
  BY <1>3, <1>6, <1>a, RulesSet
<1> HIDE DEF rules, rest
<1>8. Apart(o)
  BY <1>3, <1>5, <1>7 DEF Apart
<1> QED BY <1>2, <1>4, <1>5, <1>7, <1>8, RulesStep

LEMMA SaveRuleStep ==
  ASSUME OptionsInv, MaxEdits \in Nat, NEW d \in Options!Open, Options!SaveRule(d)
  PROVE  OptionsInv'
<1> DEFINE c == copies[d]
<1>1. PICK r \in RuleIds, offer \in Options!Offers(d), command \in Commands :
        \E from \in Options!SenderChoices(offer) :
          LET new == Options!Rule(from[1], command, from[2]) IN
          /\ Options!Valid(c.rules, offer, r, new)
          /\ Options!Edit(d, [ c EXCEPT !.rules = Options!With(@, r, new) ])
  BY DEF Options!SaveRule
<1>b. PICK from \in Options!SenderChoices(offer) :
        LET new == Options!Rule(from[1], command, from[2]) IN
        /\ Options!Valid(c.rules, offer, r, new)
        /\ Options!Edit(d, [ c EXCEPT !.rules = Options!With(@, r, new) ])
  BY <1>1
<1>2. released' = released /\ changed' = changed /\ ghosts' = ghosts
  BY DEF Options!SaveRule, Options!past
<1>3. c \in Configs /\ Apart(c) /\ options \in Configs
  BY CopyIs, KnownAre DEF OptionsInv
<1> DEFINE new == Options!Rule(from[1], command, from[2])
           rules == Options!With(c.rules, r, new)
<1>a. PICK o : o = [ c EXCEPT !.rules = rules ]
  OBVIOUS
<1>4. Options!Edit(d, o)
  BY <1>b, <1>a
<1>c. \/ from[1] \in DOMAIN offer /\ from[2] = offer[from[1]]
      \/ from[1] = Manual /\ from[2] \in Phones
  BY DEF Options!SenderChoices
<1>5. /\ new \in RuleType /\ new.from = from[1] /\ new.command = command
      /\ new.phone = from[2]
  <2>1. from[1] \in Options!Ids \cup {Manual}
    BY <1>3, <1>c, OfferedIs, ConfigIs, ContactsAre
  <2>2. from[2] \in Numbers
    BY <1>3, <1>c, OfferedIs, ConfigIs DEF Numbers
  <2> QED BY <2>1, <2>2 DEF Options!Rule, RuleType
<1>d. Options!Valid(c.rules, offer, r, new)
  BY <1>b
<1> HIDE DEF new
<1>6. /\ DOMAIN rules = DOMAIN c.rules \cup {r} /\ rules[r] = new
      /\ \A y \in DOMAIN c.rules : y # r => rules[y] = c.rules[y]
  BY DEF Options!With
<1>7. rules \in RuleSets
  <2>1. rules \in [ DOMAIN c.rules \cup {r} -> RuleType ]
    BY <1>3, <1>5, ConfigIs, RuleSetsAre DEF Options!With
  <2>2. DOMAIN c.rules \cup {r} \in SUBSET RuleIds
    BY <1>3, ConfigIs
  <2> QED BY <2>1, <2>2, RuleSetsAre
<1>8. /\ o \in Configs /\ o.recipients = c.recipients /\ o.rules = rules
      /\ o.defaults = c.defaults
  BY <1>3, <1>7, <1>a, RulesSet
<1> HIDE DEF rules
\* Another rule for the command was saved for another number.
<1>9. ASSUME NEW x \in DOMAIN c.rules \ {r}, c.rules[x].command = command,
             c.rules[x].from \notin Options!Reassigned
      PROVE  c.rules[x].phone # new.phone
  <2>1. Options!SenderOf(c.rules[x], offer) # new.phone
    BY <1>5, <1>d, <1>9 DEF Options!Valid
  <2>2. Options!SenderOf(c.rules[x], offer) = c.rules[x].phone
    BY <1>9, SenderIs
  <2> QED BY <2>1, <2>2
<1>10. Apart(o)
  <2> SUFFICES ASSUME NEW x \in DOMAIN rules, NEW y \in DOMAIN rules, x # y,
                      rules[x].command = rules[y].command,
                      rules[x].from \notin Options!Reassigned,
                        rules[y].from \notin Options!Reassigned,
                      ~(rules[x].imported /\ rules[y].imported)
               PROVE  rules[x].phone # rules[y].phone
    BY <1>8 DEF Apart
  <2>1. CASE x = r
    BY <1>5, <1>6, <1>9, <2>1
  <2>2. CASE y = r
    BY <1>5, <1>6, <1>9, <2>2
  <2>3. CASE x # r /\ y # r
    BY <1>3, <1>6, <2>3 DEF Apart
  <2> QED BY <2>1, <2>2, <2>3
<1>11. new.from \notin Options!Reassigned \cup {Manual} => \E q \in {options, c} :
         new.from \in DOMAIN q.recipients /\ new.phone = q.recipients[new.from]
  <2> SUFFICES ASSUME new.from \notin Options!Reassigned, new.from # Manual
               PROVE  \E q \in {options, c} :
                        new.from \in DOMAIN q.recipients /\ new.phone = q.recipients[new.from]
    OBVIOUS
  <2>1. new.from \in DOMAIN offer /\ new.phone = offer[new.from]
    BY <1>5, <1>c
  <2> QED BY <2>1, OfferedNumber
<1>12. \A x \in DOMAIN rules : rules[x].from \notin Options!Reassigned \cup {Manual} =>
         \/ x \in DOMAIN c.rules /\ rules[x] = c.rules[x]
         \/ \E q \in {options, c} : /\ rules[x].from \in DOMAIN q.recipients
                                    /\ rules[x].phone = q.recipients[rules[x].from]
  BY <1>6, <1>11
<1> QED BY <1>2, <1>4, <1>8, <1>10, <1>12, RulesStep

LEMMA ImportStep ==
  ASSUME OptionsInv, MaxEdits \in Nat, NEW d \in Options!Open,
           Options!Import(d) PROVE OptionsInv'
<1> DEFINE c == copies[d]
<1>1. PICK f \in Files :
        /\ Options!Edit(d, [ c EXCEPT !.recipients = f.recipients, !.rules = f.rules ])
        /\ changed' = changed \cup DOMAIN f.recipients
                        \cup ({ f.rules[r].from : r \in DOMAIN f.rules } \ {Manual})
  BY DEF Options!Import
<1>2. released' = released \cup DOMAIN c.recipients /\ ghosts' = ghosts \cup c.defaults
  BY DEF Options!Import
<1>3. c \in Configs /\ Listed(c)
  BY CopyIs
<1>a. PICK o : o = [ c EXCEPT !.recipients = f.recipients, !.rules = f.rules ]
  OBVIOUS
<1>4. Options!Edit(d, o)
  BY <1>1, <1>a
<1>5. /\ DOMAIN f.recipients \subseteq Names \X {1, 2} /\ DOMAIN f.rules \subseteq RuleIds
      /\ f.recipients \in [ DOMAIN f.recipients -> Phones ]
      /\ f.rules \in [ DOMAIN f.rules -> [ from : Options!Ids \cup {Manual}, command : Commands,
                                          phone : Phones, imported : {TRUE} ] ]
  BY FilesAssumption
<1>6. DOMAIN f.recipients \subseteq Options!Ids
  BY <1>5 DEF Options!Ids, Options!Made
<1>7. f.recipients \in Books /\ f.rules \in RuleSets
  <2>1. [ from : Options!Ids \cup {Manual}, command : Commands, phone : Phones,
          imported : {TRUE} ] \subseteq RuleType
    BY DEF RuleType, Numbers
  <2>2. f.rules \in [ DOMAIN f.rules -> RuleType ]
    BY <1>5, <2>1
  <2> QED BY <1>5, <1>6, <2>2, BooksAre, RuleSetsAre
<1> HIDE DEF c
<1>8. /\ o \in Configs /\ o.recipients = f.recipients /\ o.rules = f.rules
      /\ o.defaults = c.defaults
  BY <1>3, <1>7, <1>a DEF Configs
<1> USE DEF c
<1>9. \A r \in DOMAIN f.rules : f.rules[r].imported /\ f.rules[r].from \in Options!Ids \cup {Manual}
  BY <1>5
<1>10. Apart(o)'
  BY <1>8, <1>9 DEF Apart
<1>11. Listed(o)'
  BY <1>2, <1>3, <1>8 DEF Listed
<1>12. Numbered(o)'
  <2>1. edits' = edits + 1 /\ edits \in 0 .. (MaxEdits - 1)
    BY <1>4, <1>8, EditIs DEF OptionsInv
  <2>2. {1, 2} \subseteq 1 .. (edits' + 1)
    BY <2>1
  <2> QED BY <1>5, <1>8, <2>2 DEF Numbered
<1>b. changed' \subseteq Options!Ids
  <2>1. { f.rules[r].from : r \in DOMAIN f.rules } \subseteq Options!Ids \cup {Manual}
    BY <1>9
  <2> QED BY <1>1, <1>6, <2>1 DEF OptionsInv, OptionsTypes
<1>13. /\ released' \subseteq Options!Ids /\ ghosts' \subseteq Options!Ids
       /\ released \subseteq released' /\ changed \subseteq changed'
            /\ ghosts \subseteq ghosts'
       /\ DOMAIN c.recipients \subseteq DOMAIN o.recipients \cup released'
  BY <1>1, <1>2, <1>3, ConfigIs DEF OptionsInv, OptionsTypes
<1>14. /\ \A i \in DOMAIN o.recipients : i \in changed'
       /\ \A x \in DOMAIN o.rules : o.rules[x].from \in changed' \cup {Manual}
  BY <1>1, <1>8
<1> QED BY <1>4, <1>8, <1>10, <1>11, <1>12, <1>b, <1>13, <1>14, EditKeeps

----------------------------------------------------------------------------

LEMMA OptionsUnchanged == OptionsInv /\ UNCHANGED Options!vars => OptionsInv'
  BY DEF OptionsInv, Options!vars, Options!past, OptionsTypes, Options!Open, Known, Agree,
     Sound, Kept, Apart, Listed,
     Numbered, Options!Reassigned

LEMMA OptionsInit == ASSUME MaxEdits \in Nat, Options!Init PROVE OptionsInv
<1>1. /\ options = Options!Empty /\ copies = [ d \in {} |-> Options!Empty ] /\ edits = 0
      /\ released = {} /\ changed = {} /\ ghosts = {}
  BY DEF Options!Init
<1>2. /\ DOMAIN Options!NoRule = {} /\ Options!NoRule \in [ {} -> Phones ]
           /\ Options!NoRule \in [ {} -> RuleType ]
  BY DEF Options!NoRule
<1>3. Options!NoRule \in Books /\ Options!NoRule \in RuleSets
  BY <1>2, BooksAre, RuleSetsAre
<1>4. Options!Empty \in Configs /\ Options!Empty.recipients = Options!NoRule
        /\ Options!Empty.rules = Options!NoRule
      /\ Options!Empty.defaults = {}
  BY <1>3 DEF Options!Empty, Configs
<1>5. Options!Open = {} /\ copies \in [ Options!Open -> Configs ]
  BY <1>1 DEF Options!Open
<1>6. Known = {Options!Empty}
  BY <1>1, <1>5 DEF Known
<1>7. OptionsTypes
  BY <1>1, <1>4, <1>5 DEF OptionsTypes
<1> QED
  BY <1>2, <1>4, <1>6, <1>7 DEF OptionsInv, Agree, Sound, Kept, Apart, Listed, Numbered

LEMMA OptionsStep ==
  ASSUME MaxEdits \in Nat, OptionsInv, Options!Next PROVE OptionsInv'
<1>1. ASSUME NEW d \in Dialogues,
               Options!OpenDialogue(d) \/ Options!Finish(d)
               \/ Options!Abandon(d) PROVE OptionsInv'
  BY <1>1, OpenStep, CloseStep
<1>2. ASSUME NEW d \in Options!Open, Options!Form(d) PROVE OptionsInv'
  <2>1. CASE Options!Settings(d)
    BY <2>1, OptionsUnchanged DEF Options!Settings
  <2> QED BY <1>2, <2>1, MessagingStep, ForwardingStep, AddStep, RenumberStep, DeleteStep,
             SaveRuleStep, DeleteRulesStep, ImportStep DEF Options!Form
<1> QED BY <1>1, <1>2 DEF Options!Next

LEMMA TypedIs == ASSUME NEW o \in Configs PROVE Options!Typed(o)
  BY ConfigIs DEF Options!Typed

LEMMA OptionsAreSound == ASSUME OptionsInv PROVE Options!TypeOK /\ Options!OptionsSound
<1>1. Options!TypeOK
  BY TypedIs DEF OptionsInv, OptionsTypes, Options!TypeOK
<1>2. Kept(options) /\ Apart(options) /\ Listed(options) /\ options \in Known
  BY KnownAre DEF OptionsInv, Sound
\* The number looked up for a rule is the one it was saved for.
<1>3. ASSUME NEW r \in DOMAIN options.rules, options.rules[r].from \notin Options!Reassigned,
             options.rules[r].from \in DOMAIN Options!Available(options)
      PROVE  Options!Available(options)[options.rules[r].from] = options.rules[r].phone
  <2>1. options.rules[r].from \in DOMAIN options.recipients
    BY <1>3, AvailableIs DEF Options!Reassigned
  <2>2. Options!Available(options)[options.rules[r].from] =
          options.recipients[options.rules[r].from]
    BY <2>1, AvailableIs
  <2>3. options.rules[r].from # Manual
    BY <1>2, <2>1, KnownAre, ConfigIs, ManualAssumption DEF OptionsInv
  <2> QED BY <1>2, <1>3, <2>1, <2>2, <2>3 DEF Kept
<1>4. Options!SendersKept
  BY <1>3 DEF Options!SendersKept, Options!Admits
<1>5. Options!DefaultsExist
  BY <1>2, AvailableIs DEF Options!DefaultsExist, Listed
<1>6. ASSUME NEW r \in DOMAIN options.rules, options.rules[r].from \notin Options!Reassigned
      PROVE  Options!SenderOf(options.rules[r], Options!Available(options))
               = options.rules[r].phone
  BY <1>3, <1>6 DEF Options!SenderOf
<1>7. Options!OneRulePerCommand
  BY <1>2, <1>6 DEF Options!OneRulePerCommand, Apart
<1> QED BY <1>1, <1>4, <1>5, <1>7 DEF Options!OptionsSound

----------------------------------------------------------------------------
(* The hub and the requests it awaits (IntegrationHub).                    *)

Answers == {"status", "unauthorized", "queued", "error", "lost", "timeout"}

Idling == { Hub!Idle }
Awaiting == [ at : {"sent"}, what : {"status", "order"}, token : Tokens ]
Arrived == [ at : {"answered"}, what : {"status", "order"}, got : Answers,
  body : Hub!Statuses ]
Flights == Idling \cup Awaiting \cup Arrived

Tokened == [ {"present"} -> Tokens ] \cup [ {"present", "former"} -> Tokens ]

HubTypes ==
  /\ flight \in [ Hub!Callers -> Flights ]
  /\ backend \in Hub!Statuses /\ held \in Hub!Statuses /\ recent \in Hub!Statuses
       /\ shown \in Hub!Statuses
  /\ token \in Tokens /\ mine \in Tokened
  /\ available \in BOOLEAN /\ listening \in BOOLEAN /\ issue \in BOOLEAN
       /\ foreign \in BOOLEAN

\* The poll task never orders anything.
PollAsks == flight["poll"].at # "idle" => flight["poll"].what = "status"

\* What the entities show was notified, and nothing newer was withheld from them but that
\* the gateway came back; the issue is the hub's unless a former hub wrote it.
Told ==
  /\ entry # "absent" /\ ~foreign => issue = ~held.sms
  /\ available => recent.available
  /\ listening => entry \in {"loaded", "stuck"} /\ shown.sms = held.sms
  /\ listening /\ shown.available => available

\* How many jobs the service call has queued, by where it is.
Ordered ==
  /\ jobs \in {0, 1}
  /\ flight["service"].at = "sent" =>
       jobs = (IF flight["service"].what = "order" THEN 0 ELSE 1)
  /\ flight["service"].at = "answered" =>
       /\ flight["service"].what = "status" => jobs = 1
       /\ flight["service"].got = "queued" => jobs = 1
       /\ flight["service"].what = "order"
            /\ flight["service"].got = "unauthorized" => jobs = 0

HubInv == HubTypes /\ PollAsks /\ Told /\ Ordered

----------------------------------------------------------------------------
(* What the steps have in common.                                          *)

LEMMA UnsetIs == Hub!Unset \in Hub!Statuses /\ Hub!Unset.sms = TRUE
  /\ Hub!Unset.available = FALSE
  BY DEF Hub!Unset, Hub!Statuses

\* A caller's hub has a token.
LEMMA MineIs ==
  ASSUME HubTypes, NEW c \in Hub!Callers
  PROVE  /\ mine[Hub!Owner(c)] \in Tokens /\ Hub!Owner(c) \in DOMAIN mine
         /\ "present" \in DOMAIN mine /\ mine["present"] \in Tokens
  BY DEF HubTypes, Tokened, Hub!Owner, Hub!Stray

\* A service call that ends lets go of a former hub.
LEMMA EndedIs ==
  ASSUME HubTypes, NEW c \in Hub!Callers, Hub!Ended(c)
  PROVE  mine' \in Tokened /\ flight' = [ flight EXCEPT ![c] = Hub!Idle ]
<1>1. mine = [ h \in DOMAIN mine |-> mine[h] ] /\ \A h \in DOMAIN mine : mine[h] \in Tokens
  BY DEF HubTypes, Tokened
<1>2. CASE c = "service"
  BY <1>1, <1>2, MineIs DEF Hub!Ended, Hub!Restrict, Tokened
<1>3. CASE c # "service"
  BY <1>1, <1>3 DEF Hub!Ended, Hub!Restrict, HubTypes
<1> QED BY <1>2, <1>3 DEF Hub!Ended

\* A request that is sent has its fields.
LEMMA SentIs ==
  ASSUME NEW c \in Hub!Callers, NEW what \in {"status", "order"}, mine'[Hub!Owner(c)] \in Tokens
  PROVE  /\ Hub!Sent(c, what) \in Flights
         /\ Hub!Sent(c, what).at = "sent" /\ Hub!Sent(c, what).what = what
  BY DEF Hub!Sent, Flights, Awaiting

\* A caller that is not idle has a request, with a purpose.
LEMMA Busy ==
  ASSUME HubTypes, NEW c \in Hub!Callers, flight[c].at # "idle"
  PROVE  /\ flight[c].at \in {"sent", "answered"}
         /\ flight[c].what \in {"status", "order"}
         /\ flight[c].at = "answered" => flight[c].body \in Hub!Statuses
              /\ flight[c].got \in Answers
<1>1. flight[c] \in Flights
  BY DEF HubTypes
<1>2. flight[c] \in Awaiting \/ flight[c] \in Arrived
  BY <1>1 DEF Flights, Idling, Hub!Idle
<1> QED BY <1>2 DEF Awaiting, Arrived

\* An answer keeps what was asked.
LEMMA Answering ==
  ASSUME HubTypes, NEW c \in Hub!Callers, flight[c].at # "idle", NEW got \in Answers,
           Hub!Answer(c, got)
  PROVE  /\ flight' \in [ Hub!Callers -> Flights ]
         /\ flight'[c].at = "answered" /\ flight'[c].got = got
         /\ flight'[c].what = flight[c].what
         /\ \A d \in Hub!Callers \ {c} : flight'[d] = flight[d]
<1> DEFINE a == [ at |-> "answered", what |-> flight[c].what, got |-> got,
                  body |-> IF got = "status" THEN backend ELSE Hub!Unset ]
<1>1. a \in Arrived
  BY Busy, UnsetIs DEF Arrived, HubTypes
<1>2. flight' = [ flight EXCEPT ![c] = a ]
  BY DEF Hub!Answer
<1>3. a.at = "answered" /\ a.got = got /\ a.what = flight[c].what
  OBVIOUS
<1> HIDE DEF a
<1>4. flight' \in [ Hub!Callers -> Flights ]
  BY <1>1, <1>2 DEF Flights, HubTypes
<1>5. flight'[c] = a /\ \A d \in Hub!Callers \ {c} : flight'[d] = flight[d]
  BY <1>2 DEF HubTypes
<1> QED BY <1>3, <1>4, <1>5

\* A new request, or none, of one caller.
LEMMA Sending ==
  ASSUME HubTypes, NEW c \in Hub!Callers, NEW f \in Flights,
           flight' = [ flight EXCEPT ![c] = f ]
  PROVE  /\ flight' \in [ Hub!Callers -> Flights ] /\ flight'[c] = f
         /\ \A d \in Hub!Callers \ {c} : flight'[d] = flight[d]
  BY DEF HubTypes

LEMMA IdleIs == Hub!Idle \in Flights /\ Hub!Idle.at = "idle"
  BY DEF Hub!Idle, Flights, Idling

----------------------------------------------------------------------------
(* The steps, on each part of the invariant.                               *)

\* PollAsks and Ordered depend on the requests and the jobs alone.
LEMMA RequestsSame ==
  ASSUME HubInv, flight' = flight, jobs' = jobs
  PROVE  PollAsks' /\ Ordered'
  BY DEF HubInv, PollAsks, Ordered

\* A caller goes idle.
LEMMA RequestsEnd ==
  ASSUME HubInv, NEW c \in Hub!Callers, flight' = [ flight EXCEPT ![c] = Hub!Idle ],
           jobs' = jobs
  PROVE  flight' \in [ Hub!Callers -> Flights ] /\ PollAsks' /\ Ordered'
<1>1. /\ flight' \in [ Hub!Callers -> Flights ] /\ flight'[c] = Hub!Idle
      /\ \A d \in Hub!Callers \ {c} : flight'[d] = flight[d]
  BY Sending, IdleIs DEF HubInv
<1> HIDE DEF Hub!Idle
<1>2. PollAsks'
  BY <1>1, IdleIs DEF HubInv, PollAsks, Hub!Callers
<1>3. CASE c = "service"
  BY <1>1, <1>2, <1>3, IdleIs DEF HubInv, Ordered
<1>4. CASE c # "service"
  <2>1. flight'["service"] = flight["service"]
    BY <1>1, <1>4 DEF Hub!Callers
  <2> QED BY <1>1, <1>2, <2>1 DEF HubInv, Ordered
<1> QED BY <1>1, <1>2, <1>3, <1>4

\* All callers are dropped.
LEMMA RequestsDropped ==
  ASSUME HubInv, flight' = [ c \in Hub!Callers |-> Hub!Idle ], jobs' = jobs
  PROVE  flight' \in [ Hub!Callers -> Flights ] /\ PollAsks' /\ Ordered'
<1>1. flight'["poll"] = Hub!Idle /\ flight'["service"] = Hub!Idle
  BY DEF Hub!Callers
<1>2. flight' \in [ Hub!Callers -> Flights ]
  BY IdleIs
<1> HIDE DEF Hub!Idle
<1> QED BY <1>1, <1>2, IdleIs DEF HubInv, PollAsks, Ordered

\* A caller asks for the status, when the service call has queued its job.
LEMMA RequestsStatus ==
  ASSUME HubInv, NEW c \in Hub!Callers, mine'[Hub!Owner(c)] \in Tokens,
           flight' = [ flight EXCEPT ![c] = Hub!Sent(c, "status") ],
         jobs' = jobs, c = "service" => jobs = 1
  PROVE  flight' \in [ Hub!Callers -> Flights ] /\ PollAsks' /\ Ordered'
<1> DEFINE f == Hub!Sent(c, "status")
<1>1. f \in Flights /\ f.at = "sent" /\ f.what = "status"
  BY SentIs
<1>2. flight' = [ flight EXCEPT ![c] = f ]
  OBVIOUS
<1> HIDE DEF f
<1>3. /\ flight' \in [ Hub!Callers -> Flights ] /\ flight'[c] = f
      /\ \A d \in Hub!Callers \ {c} : flight'[d] = flight[d]
  BY <1>1, <1>2, Sending DEF HubInv
<1>4. PollAsks'
  BY <1>1, <1>3 DEF HubInv, PollAsks, Hub!Callers
<1>5. CASE c = "service"
  BY <1>1, <1>3, <1>4, <1>5 DEF HubInv, Ordered, Hub!Callers
<1>6. CASE c # "service"
  <2>1. flight'["service"] = flight["service"]
    BY <1>3, <1>6 DEF Hub!Callers
  <2> QED BY <1>3, <1>4, <2>1 DEF HubInv, Ordered
<1> QED BY <1>5, <1>6

\* An answer that is an error or is lost says nothing of the jobs.
LEMMA RequestsAnswered ==
  ASSUME HubInv, NEW c \in Hub!Callers, flight[c].at # "idle", NEW got \in Answers,
           Hub!Answer(c, got),
         c = "service" /\ flight[c].what = "status" => jobs' = 1,
         c = "service" => jobs' \in {0, 1},
         c = "poll" => jobs' = jobs,
         c = "service" /\ got = "queued" => jobs' = 1,
         c = "service" /\ flight[c].what = "order" /\ got = "unauthorized" => jobs' = 0
  PROVE  flight' \in [ Hub!Callers -> Flights ] /\ PollAsks' /\ Ordered'
<1>1. /\ flight' \in [ Hub!Callers -> Flights ]
      /\ flight'[c].at = "answered" /\ flight'[c].got = got
      /\ flight'[c].what = flight[c].what
      /\ \A d \in Hub!Callers \ {c} : flight'[d] = flight[d]
  BY Answering DEF HubInv
<1>2. PollAsks'
  BY <1>1 DEF HubInv, PollAsks, Hub!Callers
<1>3. CASE c = "service"
  BY <1>1, <1>2, <1>3 DEF Ordered
<1>4. CASE c = "poll"
  <2>1. flight'["service"] = flight["service"]
    BY <1>1, <1>4 DEF Hub!Callers
  <2> QED BY <1>1, <1>2, <1>4, <2>1 DEF HubInv, Ordered
<1> QED BY <1>3, <1>4 DEF Hub!Callers

\* A set-up that fails, or a caller that goes on, tells the entities nothing.
LEMMA ToldStopped ==
  ASSUME HubInv, NEW c \in Hub!Callers, Hub!Stopped(c),
         UNCHANGED <<Hub!known, Hub!repair, Hub!view>>
  PROVE  Told'
  BY DEF HubInv, Told, Hub!Stopped, Hub!known, Hub!repair, Hub!view

----------------------------------------------------------------------------
(* The invariant.                                                          *)

LEMMA HubInit == Hub!Init => HubInv
<1> SUFFICES ASSUME Hub!Init PROVE HubInv
  OBVIOUS
<1>1. flight \in [ Hub!Callers -> Flights ] /\ flight["poll"].at = "idle"
        /\ flight["service"].at = "idle"
  BY IdleIs DEF Hub!Init, Hub!Callers
<1>2. mine \in Tokened
  BY DEF Hub!Init, Tokened
<1> QED BY <1>1, <1>2, UnsetIs DEF Hub!Init, HubInv, HubTypes, PollAsks, Told, Ordered

\* The add-on alone, and the answer it gives.
LEMMA ServerStep ==
  ASSUME HubInv,
         \/ \E s \in Hub!Statuses : Hub!Report(s)
         \/ \E t \in Tokens : Hub!Rotate(t)
         \/ Hub!WindowEnds
  PROVE  HubInv'
<1>1. /\ backend' \in Hub!Statuses /\ token' \in Tokens
      /\ UNCHANGED <<entry, Hub!hub, Hub!repair, Hub!view, flight, jobs>>
  BY DEF Hub!Report, Hub!Rotate, Hub!WindowEnds, HubInv, HubTypes
<1>2. PollAsks' /\ Ordered'
  BY <1>1, RequestsSame
<1> QED BY <1>1, <1>2 DEF HubInv, HubTypes, Told, Hub!hub, Hub!known, Hub!repair,
      Hub!view

LEMMA ServeStep ==
  ASSUME HubInv, NEW c \in Hub!Callers, Hub!Serve(c)
  PROVE  HubInv'
<1>1. flight[c].at # "idle" /\ UNCHANGED <<backend, token, entry, Hub!hub, Hub!repair, Hub!view>>
  BY DEF Hub!Serve
<1>2. flight[c].what \in {"status", "order"}
  BY <1>1, Busy DEF HubInv
<1>3. c = "poll" => flight[c].what = "status"
  BY <1>1 DEF HubInv, PollAsks
<1>4. c = "service" => jobs = (IF flight[c].what = "order" THEN 0 ELSE 1)
  BY DEF Hub!Serve, HubInv, Ordered
<1>5. flight' \in [ Hub!Callers -> Flights ] /\ PollAsks' /\ Ordered'
  <2>1. CASE flight[c].token # token
    BY <1>1, <1>2, <1>4, <2>1, RequestsAnswered DEF Hub!Serve, Answers, HubInv, Ordered
  <2>2. CASE flight[c].token = token /\ flight[c].what = "status"
    BY <1>1, <1>2, <1>4, <2>2, RequestsAnswered DEF Hub!Serve, Answers, HubInv, Ordered
  <2>3. CASE flight[c].token = token /\ flight[c].what = "order"
    <3>1. c = "service" /\ jobs = 0
      BY <1>3, <1>4, <2>3 DEF Hub!Callers
    <3>2. \/ UNCHANGED jobs /\ Hub!Answer(c, "error")
          \/ jobs' = jobs + 1 /\ \E got \in {"queued", "error"} : Hub!Answer(c, got)
      BY <2>3 DEF Hub!Serve, Hub!Handle
    <3>3. CASE UNCHANGED jobs /\ Hub!Answer(c, "error")
      BY <1>1, <2>3, <3>1, <3>3, RequestsAnswered DEF Answers
    <3>4. CASE jobs' = jobs + 1 /\ \E got \in {"queued", "error"} : Hub!Answer(c, got)
      <4>1. PICK got \in {"queued", "error"} : Hub!Answer(c, got)
        BY <3>4
      <4>2. jobs' = 1
        BY <3>1, <3>4
      <4> QED BY <1>1, <2>3, <3>1, <4>1, <4>2, RequestsAnswered DEF Answers
    <3> QED BY <3>2, <3>3, <3>4
  <2> QED BY <1>2, <2>1, <2>2, <2>3
<1> QED BY <1>1, <1>5 DEF HubInv, HubTypes, Told, Hub!hub, Hub!known, Hub!repair,
      Hub!view

LEMMA LoseStep ==
  ASSUME HubInv, NEW c \in Hub!Callers, Hub!Lose(c)
  PROVE  HubInv'
<1>1. PICK got \in {"lost", "timeout"} : Hub!Answer(c, got)
  BY DEF Hub!Lose
<1>2. flight[c].at # "idle" /\ UNCHANGED <<Hub!server, entry, Hub!hub, Hub!repair, Hub!view, jobs>>
  BY DEF Hub!Lose
<1>3. c = "service" /\ flight[c].what = "status" => jobs = 1
  BY <1>2, Busy DEF HubInv, Ordered
<1>4. flight' \in [ Hub!Callers -> Flights ] /\ PollAsks' /\ Ordered'
  BY <1>1, <1>2, <1>3, RequestsAnswered DEF Answers, HubInv, Ordered
<1> QED BY <1>2, <1>4 DEF HubInv, HubTypes, Told, Hub!server, Hub!hub, Hub!known,
      Hub!repair, Hub!view

LEMMA ReauthorizeStep ==
  ASSUME HubInv, NEW c \in Hub!Callers, Hub!Reauthorize(c)
  PROVE  HubInv'
<1>1. /\ flight[c].at = "answered" /\ flight[c].got = "unauthorized"
      /\ UNCHANGED <<Hub!server, Hub!known, Hub!repair, Hub!view, jobs>>
  BY DEF Hub!Reauthorize
<1>2. flight[c].what \in {"status", "order"}
  BY <1>1, Busy DEF HubInv
<1>3. CASE token # mine[Hub!Owner(c)]
  <2>1. /\ mine' = [ mine EXCEPT ![Hub!Owner(c)] = token ] /\ UNCHANGED entry
        /\ flight' = [ flight EXCEPT ![c] = Hub!Sent(c, flight[c].what) ]
    BY <1>3 DEF Hub!Reauthorize
  <2>a. mine' \in Tokened /\ mine'[Hub!Owner(c)] \in Tokens
    BY <2>1, MineIs DEF HubInv, HubTypes, Tokened
  <2>2. flight' \in [ Hub!Callers -> Flights ] /\ PollAsks' /\ Ordered'
    <3>1. CASE flight[c].what = "status"
      BY <1>1, <2>1, <2>a, <3>1, RequestsStatus DEF HubInv, Ordered
    <3>2. CASE flight[c].what = "order"
      <4>1. c = "service" /\ jobs = 0
        BY <1>1, <3>2 DEF HubInv, PollAsks, Ordered, Hub!Callers
      <4> DEFINE f == Hub!Sent(c, "order")
      <4>2. f \in Flights /\ f.at = "sent" /\ f.what = "order"
        BY <2>a, SentIs
      <4>3. flight' = [ flight EXCEPT ![c] = f ]
        BY <2>1, <3>2
      <4> HIDE DEF f
      <4>4. /\ flight' \in [ Hub!Callers -> Flights ] /\ flight'[c] = f
            /\ \A d \in Hub!Callers \ {c} : flight'[d] = flight[d]
        BY <4>2, <4>3, Sending DEF HubInv
      <4>5. flight'["poll"] = flight["poll"]
        BY <4>1, <4>4 DEF Hub!Callers
      <4> QED BY <1>1, <4>1, <4>2, <4>4, <4>5 DEF HubInv, PollAsks, Ordered
    <3> QED BY <1>2, <3>1, <3>2
  <2> QED BY <1>1, <2>1, <2>a, <2>2 DEF HubInv, HubTypes, Told, Hub!server, Hub!known,
        Hub!repair, Hub!view
<1>4. CASE token = mine[Hub!Owner(c)]
  <2>1. Hub!Stopped(c)
    BY <1>4 DEF Hub!Reauthorize
  <2>2. mine' \in Tokened /\ flight' = [ flight EXCEPT ![c] = Hub!Idle ]
    BY <2>1, EndedIs DEF Hub!Stopped, HubInv
  <2>3. flight' \in [ Hub!Callers -> Flights ] /\ PollAsks' /\ Ordered'
    BY <1>1, <2>2, RequestsEnd
  <2>4. Told'
    BY <1>1, <2>1, ToldStopped
  <2> QED BY <1>1, <2>2, <2>3, <2>4 DEF HubInv, HubTypes, Hub!server, Hub!known, Hub!repair,
        Hub!view
<1> QED BY <1>3, <1>4

\* A status is applied: the entities hear of it, or it is the one they show already.
LEMMA RefreshStep ==
  ASSUME HubInv, NEW c \in Hub!Callers, Hub!Refresh(c)
  PROVE  HubInv'
<1>1. flight[c].body \in Hub!Statuses
  BY Busy DEF Hub!Refresh, HubInv
<1>a. mine' \in Tokened /\ flight' = [ flight EXCEPT ![c] = Hub!Idle ] /\ jobs' = jobs
  BY EndedIs DEF Hub!Refresh, HubInv
<1>2. flight' \in [ Hub!Callers -> Flights ] /\ PollAsks' /\ Ordered'
  BY <1>a, RequestsEnd
<1>3. /\ issue' = ~held'.sms /\ foreign' = FALSE /\ UNCHANGED Hub!server
      /\ entry' = IF entry = "starting" THEN "forwarding" ELSE entry
  BY DEF Hub!Refresh
<1>4. CASE Hub!Repeated(c)
  BY <1>a, <1>2, <1>3, <1>4 DEF Hub!Repeated, HubInv, HubTypes, Told, Hub!Statuses, Hub!server,
     Hub!view
<1>5. CASE Hub!Applied(c)
  <2>1. /\ available' = flight[c].body.available /\ held' = flight[c].body
        /\ recent' = flight[c].body /\ UNCHANGED listening
        /\ shown' = IF listening THEN [ available |-> available', sms |-> held'.sms ]
                    ELSE shown
    BY <1>5 DEF Hub!Applied, Hub!Notify
  <2>2. shown' \in Hub!Statuses /\ available' \in BOOLEAN /\ held'.sms \in BOOLEAN
    BY <1>1, <2>1 DEF Hub!Statuses, HubInv, HubTypes
  <2>3. listening => shown'.available = available' /\ shown'.sms = held'.sms
    BY <2>1
  <2>4. HubTypes'
    BY <1>1, <1>a, <1>2, <1>3, <2>1, <2>2 DEF HubInv, HubTypes, Hub!server
  <2>5. Told'
    BY <1>3, <2>1, <2>3 DEF HubInv, Told
  <2> QED BY <1>2, <2>4, <2>5 DEF HubInv
<1> QED BY <1>4, <1>5 DEF Hub!Refresh

\* The status request of a former hub ends.
LEMMA RefreshLateStep ==
  ASSUME HubInv, NEW c \in Hub!Callers, Hub!RefreshLate(c)
  PROVE  HubInv'
<1>1. flight[c].body.sms \in BOOLEAN
  BY Busy DEF Hub!RefreshLate, HubInv, Hub!Statuses
<1>2. /\ issue' \in BOOLEAN /\ foreign' = TRUE
      /\ UNCHANGED <<Hub!server, entry, Hub!known, Hub!view, jobs>>
  BY <1>1 DEF Hub!RefreshLate
<1>3. mine' \in Tokened /\ flight' = [ flight EXCEPT ![c] = Hub!Idle ]
  BY EndedIs DEF Hub!RefreshLate, HubInv
<1>4. flight' \in [ Hub!Callers -> Flights ] /\ PollAsks' /\ Ordered'
  BY <1>2, <1>3, RequestsEnd
<1> QED BY <1>2, <1>3, <1>4 DEF HubInv, HubTypes, Told, Hub!server, Hub!known, Hub!view

LEMMA NoStatusStep ==
  ASSUME HubInv, NEW c \in Hub!Callers, Hub!NoStatus(c)
  PROVE  HubInv'
<1>1. Hub!Stopped(c) /\ UNCHANGED <<Hub!server, Hub!repair, jobs>>
  BY DEF Hub!NoStatus
<1>2. mine' \in Tokened /\ flight' = [ flight EXCEPT ![c] = Hub!Idle ]
  BY <1>1, EndedIs DEF Hub!Stopped, HubInv
<1>3. flight' \in [ Hub!Callers -> Flights ] /\ PollAsks' /\ Ordered'
  BY <1>1, <1>2, RequestsEnd
<1>4. CASE Hub!Unreachable(c)
  <2>1. /\ available' = FALSE /\ UNCHANGED <<held, recent, listening>>
        /\ shown' = IF listening THEN [ available |-> FALSE, sms |-> held.sms ] ELSE shown
    BY <1>4 DEF Hub!Unreachable, Hub!Notify
  <2>2. shown' \in Hub!Statuses
    BY <2>1 DEF HubInv, HubTypes, Hub!Statuses
  <2>3. entry' = entry \/ (entry = "starting" /\ entry' = "absent")
    BY <1>1 DEF Hub!Stopped
  <2>4. listening => shown'.available = FALSE /\ shown'.sms = held.sms
    BY <2>1
  <2>5. HubTypes'
    BY <1>1, <1>2, <1>3, <2>1, <2>2 DEF HubInv, HubTypes, Hub!server, Hub!repair
  <2>6. Told'
    BY <1>1, <2>1, <2>3, <2>4 DEF HubInv, Told, Hub!repair
  <2> QED BY <1>3, <2>5, <2>6 DEF HubInv
<1>5. CASE UNCHANGED <<Hub!known, Hub!view>>
  <2>1. Told'
    BY <1>1, <1>5, ToldStopped
  <2> QED BY <1>1, <1>2, <1>3, <1>5, <2>1 DEF HubInv, HubTypes, Hub!server, Hub!known,
        Hub!repair, Hub!view
<1> QED BY <1>4, <1>5 DEF Hub!NoStatus

\* The other ends of a request, and the status request after an order.
LEMMA EndStep ==
  ASSUME HubInv, NEW c \in Hub!Callers, Hub!TimedOut(c) \/ Hub!NotQueued
  PROVE  HubInv'
<1>1. PICK d \in Hub!Callers : Hub!Stopped(d)
  BY DEF Hub!TimedOut, Hub!NotQueued, Hub!Callers
<1>2. UNCHANGED <<Hub!server, Hub!known, Hub!repair, Hub!view, jobs>>
  BY DEF Hub!TimedOut, Hub!NotQueued
<1>3. mine' \in Tokened /\ flight' = [ flight EXCEPT ![d] = Hub!Idle ]
  BY <1>1, EndedIs DEF Hub!Stopped, HubInv
<1>4. flight' \in [ Hub!Callers -> Flights ] /\ PollAsks' /\ Ordered'
  BY <1>2, <1>3, RequestsEnd
<1>5. Told'
  BY <1>1, <1>2, ToldStopped
<1> QED BY <1>2, <1>3, <1>4, <1>5 DEF HubInv, HubTypes, Hub!server, Hub!known, Hub!repair,
      Hub!view

LEMMA QueuedStep ==
  ASSUME HubInv, Hub!Queued
  PROVE  HubInv'
<1>1. /\ flight' = [ flight EXCEPT !["service"] = Hub!Sent("service", "status") ]
      /\ UNCHANGED <<Hub!server, entry, mine, Hub!known, Hub!repair, Hub!view, jobs>>
  BY DEF Hub!Queued
<1>2. jobs = 1
  BY DEF Hub!Queued, HubInv, Ordered
<1>3. mine'[Hub!Owner("service")] \in Tokens
  BY <1>1, MineIs DEF HubInv, Hub!Callers
<1>4. flight' \in [ Hub!Callers -> Flights ] /\ PollAsks' /\ Ordered'
  BY <1>1, <1>2, <1>3, RequestsStatus DEF Hub!Callers
<1> QED BY <1>1, <1>4 DEF HubInv, HubTypes, Told, Hub!server, Hub!known, Hub!repair, Hub!view

----------------------------------------------------------------------------
(* The config entry and its callers.                                       *)

LEMMA OwnerOfPoll == Hub!Owner("poll") = "present"
  BY DEF Hub!Owner

LEMMA SetUpStep ==
  ASSUME HubInv, Hub!SetUp
  PROVE  HubInv'
<1>1. /\ mine' = [ mine EXCEPT !["present"] = token ] /\ available' = FALSE
      /\ held' = Hub!Unset /\ recent' = Hub!Unset /\ issue' = FALSE /\ foreign' = FALSE
      /\ listening = FALSE /\ UNCHANGED <<Hub!server, Hub!view, jobs>>
      /\ flight' = [ flight EXCEPT !["poll"] = Hub!Sent("poll", "status") ]
  BY DEF Hub!SetUp, HubInv, HubTypes, Told
<1>2. mine' \in Tokened /\ mine'["present"] \in Tokens
  BY <1>1 DEF HubInv, HubTypes, Tokened
<1>3. flight' \in [ Hub!Callers -> Flights ] /\ PollAsks' /\ Ordered'
  BY <1>1, <1>2, OwnerOfPoll, RequestsStatus DEF Hub!Callers
<1> QED BY <1>1, <1>2, <1>3, UnsetIs DEF HubInv, HubTypes, Told, Hub!server, Hub!view

\* A hub is dropped: nothing is left of it but what a service call keeps.
LEMMA DroppedIs ==
  ASSUME HubInv, Hub!Dropped, entry' = "absent", UNCHANGED <<Hub!server, Hub!repair, jobs>>
  PROVE  HubInv'
<1>1. /\ available' = FALSE /\ held' = Hub!Unset /\ recent' = Hub!Unset
      /\ listening' = FALSE /\ shown' = Hub!Unset
      /\ flight' = [ flight EXCEPT !["poll"] = Hub!Idle ]
  BY DEF Hub!Dropped, Hub!Forgotten
<1>2. mine' \in Tokened
  <2>1. mine \in Tokened /\ mine["present"] \in Tokens
    BY MineIs DEF HubInv, HubTypes, Hub!Callers
  <2>2. CASE mine' = mine
    BY <2>1, <2>2
  <2>3. CASE mine' = [ h \in {"present", "former"} |-> mine["present"] ]
    BY <2>1, <2>3 DEF Tokened
  <2> QED BY <2>2, <2>3 DEF Hub!Dropped
<1>3. flight' \in [ Hub!Callers -> Flights ] /\ PollAsks' /\ Ordered'
  BY <1>1, RequestsEnd DEF Hub!Callers
<1> QED BY <1>1, <1>2, <1>3, UnsetIs DEF HubInv, HubTypes, Told, Hub!server, Hub!repair

LEMMA ForwardStep ==
  ASSUME HubInv, Hub!Forward
  PROVE  HubInv'
<1>1. UNCHANGED <<Hub!server, Hub!repair, jobs>>
  BY DEF Hub!Forward
<1>2. CASE /\ entry' = "loaded" /\ listening' = TRUE /\ UNCHANGED <<Hub!hub, flight>>
           /\ shown' = [ available |-> available, sms |-> held.sms ]
  <2>1. PollAsks' /\ Ordered'
    BY <1>1, <1>2, RequestsSame
  <2>2. shown' \in Hub!Statuses /\ shown'.available = available /\ shown'.sms = held.sms
    BY <1>2 DEF HubInv, HubTypes, Hub!Statuses
  <2>3. entry = "forwarding"
    BY DEF Hub!Forward
  <2> QED BY <1>1, <1>2, <2>1, <2>2, <2>3 DEF HubInv, HubTypes, Told, Hub!server, Hub!hub,
        Hub!known, Hub!repair
<1>3. CASE entry' = "absent" /\ Hub!Dropped
  BY <1>1, <1>3, DroppedIs
<1> QED BY <1>2, <1>3 DEF Hub!Forward

LEMMA PollStep ==
  ASSUME HubInv, Hub!Poll
  PROVE  HubInv'
<1>1. /\ flight' = [ flight EXCEPT !["poll"] = Hub!Sent("poll", "status") ]
      /\ UNCHANGED <<Hub!server, entry, mine, Hub!known, Hub!repair, Hub!view, jobs>>
  BY DEF Hub!Poll
<1>2. mine'[Hub!Owner("poll")] \in Tokens
  BY <1>1, MineIs DEF HubInv, Hub!Callers
<1>3. flight' \in [ Hub!Callers -> Flights ] /\ PollAsks' /\ Ordered'
  BY <1>1, <1>2, RequestsStatus DEF Hub!Callers
<1> QED BY <1>1, <1>3 DEF HubInv, HubTypes, Told, Hub!server, Hub!known, Hub!repair, Hub!view

LEMMA OrderStep ==
  ASSUME HubInv, Hub!Order
  PROVE  HubInv'
<1> DEFINE f == Hub!Sent("service", "order")
<1>1. /\ flight' = [ flight EXCEPT !["service"] = f ] /\ jobs' = 0
      /\ UNCHANGED <<Hub!server, entry, mine, Hub!known, Hub!repair, Hub!view>>
  BY DEF Hub!Order
<1>2. f \in Flights /\ f.at = "sent" /\ f.what = "order"
  BY <1>1, MineIs, SentIs DEF HubInv, Hub!Callers
<1> HIDE DEF f
<1>3. /\ flight' \in [ Hub!Callers -> Flights ] /\ flight'["service"] = f
      /\ flight'["poll"] = flight["poll"]
  BY <1>1, <1>2, Sending DEF HubInv, Hub!Callers
<1> QED BY <1>1, <1>2, <1>3 DEF HubInv, HubTypes, PollAsks, Told, Ordered, Hub!server,
      Hub!known, Hub!repair, Hub!view

LEMMA UnloadStep ==
  ASSUME HubInv, Hub!Unload \/ Hub!Restart
  PROVE  HubInv'
<1>1. UNCHANGED <<Hub!server, Hub!repair, jobs>>
  BY DEF Hub!Unload, Hub!Restart
<1>2. CASE entry' = "absent" /\ Hub!Dropped
  BY <1>1, <1>2, DroppedIs
<1>3. CASE /\ entry' = "stuck" /\ UNCHANGED <<Hub!hub, Hub!view>>
           /\ flight' = [ flight EXCEPT !["poll"] = Hub!Idle ] /\ Hub!Unload
  <2>1. flight' \in [ Hub!Callers -> Flights ] /\ PollAsks' /\ Ordered'
    BY <1>1, <1>3, RequestsEnd DEF Hub!Callers
  <2>2. entry = "loaded"
    BY <1>3 DEF Hub!Unload
  <2> QED BY <1>1, <1>3, <2>1, <2>2 DEF HubInv, HubTypes, Told, Hub!server, Hub!hub, Hub!known,
        Hub!repair, Hub!view
<1>4. CASE Hub!Restart
  <2>1. /\ available' = FALSE /\ held' = Hub!Unset /\ recent' = Hub!Unset
        /\ listening' = FALSE /\ shown' = Hub!Unset /\ entry' = "absent"
        /\ flight' = [ c \in Hub!Callers |-> Hub!Idle ]
        /\ mine' = Hub!Restrict(mine, {"present"})
    BY <1>4 DEF Hub!Restart, Hub!Forgotten
  <2>2. mine' \in Tokened
    BY <2>1, MineIs DEF HubInv, Hub!Callers, Hub!Restrict, Tokened
  <2>3. flight' \in [ Hub!Callers -> Flights ] /\ PollAsks' /\ Ordered'
    BY <1>1, <2>1, RequestsDropped
  <2> QED BY <1>1, <2>1, <2>2, <2>3, UnsetIs DEF HubInv, HubTypes, Told, Hub!server, Hub!repair
<1> QED BY <1>2, <1>3, <1>4 DEF Hub!Unload

\* The limiter's window, the status of the entry and the jobs stay within their bounds.
HubWithin ==
  /\ bucket \in 0 .. Limit /\ jobs \in 0 .. MaxOrders
  /\ entry \in {"absent", "starting", "forwarding", "loaded", "stuck"}

LEMMA HubWithinStep ==
  ASSUME Limit \in Nat, MaxOrders \in Nat, HubWithin, Hub!Next PROVE HubWithin'
<1>1. ASSUME NEW c \in Hub!Callers, Hub!Serve(c) PROVE HubWithin'
  <2>1. CASE UNCHANGED <<bucket, jobs>>
    BY <1>1, <2>1 DEF Hub!Serve, Hub!Handle, HubWithin
  <2>2. CASE bucket # Limit /\ bucket' = bucket + 1 /\ jobs < MaxOrders /\ jobs' = jobs + 1
    BY <1>1, <2>2 DEF Hub!Serve, Hub!Handle, HubWithin
  <2>3. CASE bucket # Limit /\ bucket' = bucket + 1 /\ UNCHANGED jobs
    BY <1>1, <2>3 DEF Hub!Serve, Hub!Handle, HubWithin
  <2> QED BY <1>1, <2>1, <2>2, <2>3 DEF Hub!Serve, Hub!Handle
<1>2. ASSUME \/ \E s \in Hub!Statuses : Hub!Report(s)
             \/ \E t \in Tokens : Hub!Rotate(t)
             \/ Hub!WindowEnds
      PROVE  HubWithin'
  BY <1>2 DEF Hub!Report, Hub!Rotate, Hub!WindowEnds, HubWithin
<1>3. ASSUME NEW c \in Hub!Callers,
             \/ Hub!Lose(c) \/ Hub!Reauthorize(c) \/ Hub!Refresh(c) \/ Hub!RefreshLate(c)
                  \/ Hub!NoStatus(c) \/ Hub!TimedOut(c)
             \/ Hub!Queued \/ Hub!NotQueued
      PROVE  HubWithin'
  <2>1. UNCHANGED <<bucket, jobs>>
    BY <1>3 DEF Hub!Lose, Hub!Reauthorize, Hub!Refresh, Hub!RefreshLate, Hub!NoStatus, Hub!TimedOut,
       Hub!Queued, Hub!NotQueued, Hub!server
  <2>2. \/ entry' = entry \/ entry' = "absent" \/ entry' = "forwarding"
    BY <1>3 DEF Hub!Lose, Hub!Reauthorize, Hub!Refresh, Hub!RefreshLate, Hub!NoStatus, Hub!TimedOut,
       Hub!Queued, Hub!NotQueued, Hub!Stopped
  <2> QED BY <2>1, <2>2 DEF HubWithin
<1>4. ASSUME Hub!SetUp \/ Hub!Forward \/ Hub!Poll \/ Hub!Order \/ Hub!Unload
               \/ Hub!Restart PROVE HubWithin'
  <2>1. UNCHANGED bucket /\ (jobs' = jobs \/ jobs' = 0)
    BY <1>4 DEF Hub!SetUp, Hub!Forward, Hub!Poll, Hub!Order, Hub!Unload, Hub!Restart,
       Hub!server
  <2>2. entry' = entry \/ entry' \in {"absent", "starting", "loaded", "stuck"}
    BY <1>4 DEF Hub!SetUp, Hub!Forward, Hub!Poll, Hub!Order, Hub!Unload, Hub!Restart
  <2> QED BY <2>1, <2>2 DEF HubWithin
<1> QED BY <1>1, <1>2, <1>3, <1>4 DEF Hub!Next, Hub!Callers

LEMMA HubStep == ASSUME HubInv, Hub!Next PROVE HubInv'
<1>1. ASSUME \/ \E s \in Hub!Statuses : Hub!Report(s)
             \/ \E t \in Tokens : Hub!Rotate(t)
             \/ Hub!WindowEnds
      PROVE  HubInv'
  BY <1>1, ServerStep
<1>2. ASSUME NEW c \in Hub!Callers,
             Hub!Serve(c) \/ Hub!Lose(c) \/ Hub!Reauthorize(c) \/ Hub!Refresh(c)
               \/ Hub!RefreshLate(c) \/ Hub!NoStatus(c) \/ Hub!TimedOut(c)
      PROVE  HubInv'
  BY <1>2, ServeStep, LoseStep, ReauthorizeStep, RefreshStep, RefreshLateStep,
     NoStatusStep, EndStep
<1>3. ASSUME Hub!Queued \/ Hub!NotQueued PROVE HubInv'
  BY <1>3, QueuedStep, EndStep DEF Hub!Callers
<1>4. ASSUME Hub!SetUp \/ Hub!Forward \/ Hub!Poll \/ Hub!Order \/ Hub!Unload
               \/ Hub!Restart PROVE HubInv'
  BY <1>4, SetUpStep, ForwardStep, PollStep, OrderStep, UnloadStep
<1> QED BY <1>1, <1>2, <1>3, <1>4 DEF Hub!Next

LEMMA HubUnchanged == ASSUME HubInv, UNCHANGED Hub!vars PROVE HubInv'
<1>1. PollAsks' /\ Ordered'
  BY RequestsSame DEF Hub!vars
<1> QED BY <1>1 DEF Hub!vars, Hub!server, Hub!hub, Hub!known, Hub!repair, Hub!view, HubInv,
      HubTypes, Told

LEMMA HubIsGood == ASSUME HubInv, HubWithin PROVE Hub!TypeOK /\ Hub!HubSound
<1>1. Hub!ShownIsSafe
  BY DEF HubInv, Told, Hub!ShownIsSafe
<1>2. Hub!OneJobPerCall
  BY Busy DEF HubInv, Ordered, Hub!OneJobPerCall, Hub!Callers
<1>3. \A c \in Hub!Callers : flight[c].at \in {"idle", "sent", "answered"}
  <2> SUFFICES ASSUME NEW c \in Hub!Callers, flight[c].at # "idle"
               PROVE  flight[c].at \in {"sent", "answered"}
    OBVIOUS
  <2> QED BY Busy DEF HubInv
<1>4. Hub!TypeOK
  BY <1>3 DEF HubInv, HubTypes, HubWithin, Hub!TypeOK, Tokened
<1> QED BY <1>1, <1>2, <1>4 DEF Hub!HubSound

----------------------------------------------------------------------------
(* The parts together.                                                     *)

IntegrationInv ==
  /\ part = "options" => OptionsInv
  /\ part = "hub" => HubInv /\ HubWithin

LEMMA IntegrationConstants ==
  /\ MaxEdits \in Nat /\ Limit \in Nat /\ MaxOrders \in Nat
  BY BoundsAssumption

LEMMA IntegrationInvInit == IntegrationInit => IntegrationInv
<1> SUFFICES ASSUME IntegrationInit PROVE IntegrationInv
  OBVIOUS
<1>1. OptionsInv
  BY IntegrationConstants, OptionsInit DEF IntegrationInit
<1>2. HubInv
  BY HubInit DEF IntegrationInit
<1>3. HubWithin
  BY IntegrationConstants DEF IntegrationInit, Hub!Init, HubWithin
<1> QED BY <1>1, <1>2, <1>3 DEF IntegrationInv

LEMMA IntegrationInvStep ==
  IntegrationInv /\ [IntegrationNext]_integration => IntegrationInv'
<1> SUFFICES ASSUME IntegrationInv, [IntegrationNext]_integration PROVE IntegrationInv'
  OBVIOUS
<1>1. UNCHANGED part
  BY DEF IntegrationNext, integration
<1>2. CASE part = "options"
  <2>1. Options!Next \/ UNCHANGED Options!vars
    BY <1>2 DEF IntegrationNext, integration, flow, Options!vars, Options!past
  <2>2. OptionsInv'
    BY <1>2, <2>1, IntegrationConstants, OptionsStep, OptionsUnchanged DEF IntegrationInv
  <2> QED BY <1>1, <1>2, <2>2 DEF IntegrationInv
<1>3. CASE part = "hub"
  <2>1. Hub!Next \/ UNCHANGED Hub!vars
    BY <1>3 DEF IntegrationNext, integration, hub, Hub!vars, Hub!server, Hub!hub, Hub!known,
       Hub!repair, Hub!view
  <2>2. HubInv'
    BY <1>3, <2>1, HubStep, HubUnchanged DEF IntegrationInv
  <2>3. HubWithin'
    <3>1. CASE Hub!Next
      BY <1>3, <3>1, IntegrationConstants, HubWithinStep DEF IntegrationInv
    <3>2. CASE UNCHANGED Hub!vars
      BY <1>3, <3>2 DEF IntegrationInv, HubWithin, Hub!vars, Hub!server
    <3> QED BY <2>1, <3>1, <3>2
  <2> QED BY <1>1, <1>3, <2>2, <2>3 DEF IntegrationInv
<1> QED BY <1>1, <1>2, <1>3 DEF IntegrationInv

LEMMA IntegrationInvHolds == IntegrationSpec => []IntegrationInv
  BY IntegrationInvInit, IntegrationInvStep, PTL DEF IntegrationSpec

----------------------------------------------------------------------------
(* What the parts promise.                                                 *)

\* Whatever dialogues are open at once, and in whatever order they add, renumber, delete,
\* import and finish, whatever numbers are typed in and whatever files are imported: a rule
\* in force admits the number it was validated for and no other and the default recipients
\* exist, for ids that came to mean nothing else meanwhile; and two rules never compete for
\* a command of one sender, unless one file brought both (config_flow.py, recipients.py).
THEOREM OptionsAreWhatWasMeant == IntegrationSpec => []OptionsSound
<1>1. IntegrationInv => OptionsSound
  BY OptionsAreSound DEF IntegrationInv, OptionsSound
<1> QED BY <1>1, IntegrationInvHolds, PTL

\* Whatever the order in which the answers to polls and service calls arrive, with requests
\* lost, refused or sent again with a new token, and through set-ups, restarts and unloads
\* that a service call outlives: entities never show a gateway as available that the hub
\* holds to be away, the repair issue agrees with them unless a call of a former hub wrote
\* it, and a service call has the add-on queue at most one job (hub.py, __init__.py,
\* server.py).
THEOREM HubIsSound == IntegrationSpec => []HubSound
<1>1. IntegrationInv => HubSound
  BY HubIsGood DEF IntegrationInv, HubSound
<1> QED BY <1>1, IntegrationInvHolds, PTL
=============================================================================
