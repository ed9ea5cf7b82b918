------------------------------- MODULE MCParts -------------------------------
(***************************************************************************)
(* Seven parts that keep to themselves, side by side: a behaviour is one   *)
(* of one of them, which the others' variables sit out.                    *)
(***************************************************************************)
EXTENDS MCExfatCard, FatCard, SdSession, BridgePause, CloseGuard, WatchEvents,
        StreamRx

VARIABLE part    \* the part that runs

Parts == {"exFAT", "FAT", "session", "pause", "close", "watch", "stream"}

PartsInit ==
  /\ part \in Parts
  /\ Init /\ FatInit /\ SdInit /\ PauseInit /\ CloseInit /\ WatchInit /\ RxInit

Only(p, others) == part = p /\ UNCHANGED <<part, others>>

PartsNext ==
  \/ Only("exFAT", <<fatVars, sdVars, pauseVars, closeVars, watchVars, rxVars>>) /\ Next
  \/ Only("FAT", <<vars, sdVars, pauseVars, closeVars, watchVars, rxVars>>) /\ FatNext
  \/ Only("session", <<vars, fatVars, pauseVars, closeVars, watchVars, rxVars>>) /\ SdNext
  \/ Only("pause", <<vars, fatVars, sdVars, closeVars, watchVars, rxVars>>) /\ PauseNext
  \/ Only("close", <<vars, fatVars, sdVars, pauseVars, watchVars, rxVars>>) /\ CloseNext
  \/ Only("watch", <<vars, fatVars, sdVars, pauseVars, closeVars, rxVars>>) /\ WatchNext
  \/ Only("stream", <<vars, fatVars, sdVars, pauseVars, closeVars, watchVars>>) /\ RxNext

PartsSpec == PartsInit /\ [][PartsNext]_<<part, vars, fatVars, sdVars, pauseVars,
                                          closeVars, watchVars, rxVars>>

\* The types of each part's variables, what SdSession's cache holds within its
\* budget, and where StreamRx's messages lie in their buffer.
PartsTypeOK == TypeOK /\ SdTypeOK /\ PauseTypeOK /\ CloseTypeOK /\ RxTypeOK
=============================================================================
