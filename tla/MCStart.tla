------------------------------- MODULE MCStart -------------------------------
(***************************************************************************)
(* StartProfiles and StartCommand for TLC: the constructor builds the      *)
(* list, and commands are sent later.                                      *)
(***************************************************************************)
EXTENDS StartProfiles, StartCommand

Profile(mode, ep, preface, repeat, command, arg0) ==
  [mode |-> mode, endpoint |-> ep, preface |-> preface, repeat |-> repeat,
   interval |-> 25, command |-> command, arg0 |-> arg0, arg1 |-> 0]

Default == Profile("frame20", 1, FALSE, 1, 19, 15)

(* The default, profiles that coincide with one of the priority list or of *)
(* the sweeps, and some outside all lists.                                 *)
MCConfigured ==
  { Default,
    Profile("payload12", 2, TRUE, 1, 19, 3),
    Profile("frame20", 2, FALSE, 2, 19, 3),
    Profile("broadcast_payload12", 4, FALSE, 1, 19, 15),
    Profile("frame_then_payload", 1, FALSE, 1, 26, 8),
    Profile("header8", 15, TRUE, 3, 99, 2) }

(* Every mode, primary endpoints inside and outside the broadcast, with    *)
(* and without preface, repetition and interval.                           *)
MCProfiles ==
  [mode : Modes, endpoint : {1, 3, 5, 15}, preface : BOOLEAN,
   repeat : {1, 3}, interval : {0, 25}]

(* What is sent depends on its profile alone, not on the list: every list  *)
(* goes with one command and every command with one list.                  *)
StartInit ==
  /\ ListInit
  /\ Init
  /\ \/ candidate = 1
     \/ configured = Default /\ ~autoCycle /\ ~extended

BuildList == ListNext /\ UNCHANGED vars

Send == Built /\ Next /\ UNCHANGED listVars

StartSpec == StartInit /\ [][BuildList \/ Send]_<<listVars, vars>>
==============================================================================
