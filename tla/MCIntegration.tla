---------------------------- MODULE MCIntegration ----------------------------
(***************************************************************************)
(* A small instance, for TLC, of each part of the integration that         *)
(* Integration puts side by side.                                          *)
(***************************************************************************)
EXTENDS Integration, TLC
CONSTANTS m1, m2, m3, s1, s2, plain, guarded

ThreeMessages == {m1, m2, m3}
TwoSenders    == {s1, s2}
TwoRules      == {plain, guarded}
Guarded       == {guarded}

\* The guarded rule asks for a PIN and a code and reports a state.
SomeCooldown == [ r \in TwoRules |-> IF r = plain THEN 1 ELSE 0 ]

\* A contact of the add-on has a number that a recipient may be given, too.
OneContact == <<"ward", 1>> :> "p2"

\* Files: one that an export could give, two manual rules for one number and command, and a
\* rule for an id that no recipient has yet.
File(book, rules) == [ recipients |-> book, rules |-> rules ]
Brought(id, phone) == [ from |-> id, command |-> "on", phone |-> phone, imported |-> TRUE ]

SomeFiles ==
  { File(<<"anna", 1>> :> "p1", 1 :> Brought(<<"anna", 1>>, "p1")),
    File(<<>>, 1 :> Brought(Manual, "p1") @@ 2 :> Brought(Manual, "p1")),
    File(<<>>, 1 :> Brought(<<"anna", 1>>, "p2")) }

\* Two model values stand for the senders and for the dialogues, so one symmetry serves both.
Symmetric == Permutations(Messages) \cup Permutations(TwoSenders)
=============================================================================
