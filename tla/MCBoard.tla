------------------------------- MODULE MCBoard -------------------------------
(* Two Shugart drives.  In the generic mode drive 0 is dumped, and its head    *)
(* moved meanwhile; a shell drives the expansion pins.  In no named mode, which *)
(* is generic too, nothing is dumped: the shell sets up the emulation of drive  *)
(* 1 and looks for drives.                                                      *)
EXTENDS Board

MCLine ==
  [select   |-> 0 :> "DS0" @@ 1 :> "DS1",
   motor    |-> 0 :> "MOTON" @@ 1 :> "MOTON",
   headload |-> 0 :> "NONE" @@ 1 :> "PIN04_OUT",
   option   |-> 0 :> "OPTIONSEL0" @@ 1 :> "OPTIONSEL1"]

MCFiles == { [id |-> 1, tracks |-> 2, read |-> 2, sound |-> TRUE],
             [id |-> 2, tracks |-> 2, read |-> 1, sound |-> TRUE],
             [id |-> 3, tracks |-> 1, read |-> 1, sound |-> FALSE] }

MCDumps == [GENERIC |-> {0}, APPLE_II |-> {0}, APPLE_MACINTOSH |-> {0}, UNKNOWN |-> {}]

Settings == { <<"config", 1, 0, 2>>, <<"config", 0, 16, 8>>, <<"led", 1, 5>>,
              <<"reset">> }

Emulate(f) == [load |-> f, selsrc |-> 8, motsrc |-> 12, enabledrive |-> 0]

MCCalls ==
  [script |-> [GENERIC |-> Settings \cup
                             { <<"headstep", 0, 1>>, <<"headstep", 1, 0>>, <<"eject", 1>>,
                               <<"setio", "LED1", 1>>, <<"setio", "NOBODY", 1>> },
               APPLE_II |-> { <<"headstep", 0, 1>>, <<"reset">> },
               APPLE_MACINTOSH |-> { <<"headstep", 0, 1>>, <<"config", 0, 13, 1>>, <<"reset">> },
               UNKNOWN |-> { <<"config", 0, 13, 1>> }],
   tool |-> [GENERIC |-> { <<"pauline", 0, "setiohigh" :> 1>>,
                           <<"pauline", 0, "setiolow" :> 1>>,
                           <<"pauline", 0, "setiohz" :> 1>> },
             APPLE_II |-> {}, APPLE_MACINTOSH |-> {},
             UNKNOWN |-> { <<"pauline", 1, Emulate(f)>> : f \in MCFiles } \cup
                         { <<"pauline", 0, "autodetect" :> 0>>,
                           <<"pauline", 1, "disabledrive" :> 0>> }]]

\* The theorems' hypotheses.
ASSUME MCBoardCalls == Wired /\ Commands /\ Apart
=============================================================================
