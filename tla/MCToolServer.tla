---------------------------- MODULE MCToolServer ----------------------------
(***************************************************************************)
(* Two concurrent calls, of a session each; one build slot, one kept       *)
(* artifact, windows of three ticks.                                       *)
(***************************************************************************)
EXTENDS ToolServer

MCSessionOf == [c \in Callers |-> c]

\* Two toolchains that differ in the CLI's git revision only.
MCIdentity == [t \in Toolchains |->
    [rsver |-> [version |-> "1.91", revision |-> "c0"],
     cliver |-> [version |-> "27.0", revision |-> t],
     rssdkver |-> [version |-> "25.0", revision |-> "none"]]]

MCConfig == [launcher |-> "none", timeout |-> 2, jobs |-> 1, target_dir |-> "own", stellar_binary |-> "stellar"]

\* Two calls, for the work; one call while the toolchain changes; or requests
\* that the guard answers, for the windows.
MCBounds ==
    {[requests |-> 2, calls |-> 2, ticks |-> 0, upgrades |-> 0],
     [requests |-> 1, calls |-> 1, ticks |-> 0, upgrades |-> 2],
     [requests |-> 5, calls |-> 0, ticks |-> 5, upgrades |-> 0]}

MCOverrides == [t \in Metered |-> 1]
=============================================================================
