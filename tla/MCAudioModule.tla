--------------------------- MODULE MCAudioModule ---------------------------
(* An audio module with its ports, patches and streams, and a route of the  *)
(* remote submix with streams that open and close on it at the same time.   *)
(* They share nothing: a behaviour is one of the part that "part" names.    *)
EXTENDS AudioModule, StreamRemoteSubmix, TLC

CONSTANT Parts
VARIABLE part

\* Two mix ports for playback on a speaker, over a route of their own each, one
\* of them exclusive.  A mix port for capture, without profiles, from a
\* microphone and from external devices.  External devices for playback as well.
MCRoutes == {[sources |-> {1}, sink |-> 7, exclusive |-> FALSE],
             [sources |-> {1}, sink |-> 4, exclusive |-> FALSE],
             [sources |-> {2}, sink |-> 4, exclusive |-> TRUE],
             [sources |-> {5, 6}, sink |-> 3, exclusive |-> FALSE]}

MCMaxStreams == 1 :> 0 @@ 2 :> 0 @@ 3 :> 1

\* The inputs of a submix route are alike.
Alike == Permutations(Ins)
-----------------------------------------------------------------------------
MCInit == part \in Parts /\ Init /\ SubmixInit

MCNext ==
  /\ UNCHANGED part
  /\ \/ part = "module" /\ Next /\ UNCHANGED submixVars
     \/ part = "submix" /\ SubmixNext /\ UNCHANGED vars

MCSpec == MCInit /\ [][MCNext]_<<part, vars, submixVars>>
=============================================================================
