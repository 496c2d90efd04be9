---------------------------- MODULE StatsFigures ----------------------------
(***************************************************************************)
(* The statistics screen with the figures of all its tabs.                 *)
(***************************************************************************)
EXTENDS StatsScreen, CacheFigures, ToolFigures, PerformanceFigures

(* The figures on screen, whatever keys led there, and those of the other   *)
(* tabs, whatever the sessions, are those their definitions give, each      *)
(* computed another way.                                                    *)
FiguresAgree ==
    /\ ScreenFiguresAgree
    /\ TurnFiguresRight
    /\ CacheFiguresRight
    /\ ToolFiguresRight
    /\ PerformanceFiguresRight
=============================================================================
