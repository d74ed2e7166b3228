---------------------------- MODULE MCPlayerStats ----------------------------
(* A team event of two days, a two-day event before it, one of the same day *)
(* whose end nobody can read, and one without a date.                       *)
EXTENDS PlayerStats

CONSTANTS Team, TwoDays, OneDay, Undated, Itc, Hobby

MCEvents == {Team, TwoDays, OneDay, Undated}
MCAbout ==
  [e \in MCEvents |->
     [team    |-> e = Team,
      start   |-> CASE e = Team -> 2 [] e = Undated -> None [] OTHER -> 1,
      periods |-> IF e \in {Team, TwoDays} THEN 1 ELSE None]]
MCLeagues == {Itc, Hobby}
MCFlagship == {Itc}
MCViews == {{"summary", "full"}, {"events"}}

=============================================================================
