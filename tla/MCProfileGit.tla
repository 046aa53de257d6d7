------------------------------ MODULE MCProfileGit -----------------------------
(***************************************************************************)
(* Instances of ProfileGit for TLC.  MCProfiles has one repository of each *)
(* kind, whose paths TrimRight keeps apart; MCLookalikes has repositories  *)
(* o/ab, o/abi and o/git, whose names end in characters of ".git".         *)
(***************************************************************************)
EXTENDS ProfileGit

P(valid, name, ignore) ==
  [valid |-> valid, host |-> "h", dirs |-> <<<<"o">>>>, name |-> name,
   ignore |-> ignore]
DotGit == <<".", "g", "i", "t">>

MCProfiles ==
  {P(TRUE, <<"a">>, "none"), P(TRUE, <<"b">> \o DotGit, "lists"),
   P(TRUE, <<"o">>, "missing"), P(TRUE, <<"a", "b">>, "comments"),
   P(FALSE, <<"b", "a">>, "none")}
MCLookalikes ==
  {P(TRUE, <<"a", "b">>, "none"), P(TRUE, <<"a", "b", "i">>, "none"),
   P(TRUE, <<"g", "i", "t">>, "none")}
================================================================================
