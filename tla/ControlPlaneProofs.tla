------------------------- MODULE ControlPlaneProofs -------------------------
(***************************************************************************)
(* That nothing is lost when one run stands for the parts of the control   *)
(* plane: in every behaviour of the run each part behaves as its own       *)
(* specification says, so what is proved of the parts holds in the run.    *)
(***************************************************************************)
EXTENDS MCControlPlane, EndpointProofs, ConnectionProofs, ApiProofs

(* The part that moves takes one of its own steps, the others stay. *)
PartMoves ==
    /\ [ReplayNext]_replayVars
    /\ [HealthNext]_healthVars
    /\ [WatchNext]_watchVars
    /\ [ConnectNext]_connectVars
    /\ [PagingNext]_pagingVars
    /\ [ApiNext]_apiVars
    /\ [RouteNext]_routeVars
    /\ [GmailNext]_gmailVars
    /\ [SignatureNext]_signatureVars

(* One part is chosen at the start. *)
PartIsChosen ==
    part \in { "replay", "health", "watch", "connect", "paging", "api", "route", "gmail",
               "signature" }

LEMMA PartStep == [PartNext]_partVars => PartMoves
<1> SUFFICES ASSUME [PartNext]_partVars
             PROVE  PartMoves
  OBVIOUS
<1>1. CASE UNCHANGED partVars
  BY <1>1 DEF partVars, PartMoves
<1>2. CASE part = "replay" /\ UnchangedBut("replay") /\ ReplayNext
  BY <1>2 DEF UnchangedBut, PartMoves
<1>3. CASE part = "health" /\ UnchangedBut("health") /\ HealthNext
  BY <1>3 DEF UnchangedBut, PartMoves
<1>4. CASE part = "watch" /\ UnchangedBut("watch") /\ WatchNext
  BY <1>4 DEF UnchangedBut, PartMoves
<1>5. CASE part = "connect" /\ UnchangedBut("connect") /\ ConnectNext
  BY <1>5 DEF UnchangedBut, PartMoves
<1>6. CASE part = "paging" /\ UnchangedBut("paging") /\ PagingNext
  BY <1>6 DEF UnchangedBut, PartMoves
<1>7. CASE part = "api" /\ UnchangedBut("api") /\ ApiNext
  BY <1>7 DEF UnchangedBut, PartMoves
<1>8. CASE part = "route" /\ UnchangedBut("route") /\ RouteNext
  BY <1>8 DEF UnchangedBut, PartMoves
<1>9. CASE part = "gmail" /\ UnchangedBut("gmail") /\ GmailNext
  BY <1>9 DEF UnchangedBut, PartMoves
<1>10. CASE part = "signature" /\ UnchangedBut("signature") /\ SignatureNext
  BY <1>10 DEF UnchangedBut, PartMoves
<1> QED
  BY <1>1, <1>2, <1>3, <1>4, <1>5, <1>6, <1>7, <1>8, <1>9, <1>10 DEF PartNext

(* In the run for the control plane each part behaves as it does alone.      *)
THEOREM PartsBehaveAsAlone ==
    PartSpec => /\ ReplaySpec /\ HealthSpec /\ WatchSpec /\ ConnectSpec /\ PagingSpec
                /\ ApiSpec /\ RouteSpec /\ GmailSpec /\ SignatureSpec
<1>1. PartInit => /\ ReplayInit /\ HealthInit /\ WatchInit /\ ConnectInit /\ PagingInit
                  /\ ApiInit /\ RouteInit /\ GmailInit /\ SignatureInit
  BY DEF PartInit
<1>2. [PartNext]_partVars => [ReplayNext]_replayVars
  BY PartStep DEF PartMoves
<1>3. [PartNext]_partVars => [HealthNext]_healthVars
  BY PartStep DEF PartMoves
<1>4. [PartNext]_partVars => [WatchNext]_watchVars
  BY PartStep DEF PartMoves
<1>5. [PartNext]_partVars => [ConnectNext]_connectVars
  BY PartStep DEF PartMoves
<1>6. [PartNext]_partVars => [PagingNext]_pagingVars
  BY PartStep DEF PartMoves
<1>7. [PartNext]_partVars => [ApiNext]_apiVars
  BY PartStep DEF PartMoves
<1>8. [PartNext]_partVars => [RouteNext]_routeVars
  BY PartStep DEF PartMoves
<1>9. [PartNext]_partVars => [GmailNext]_gmailVars
  BY PartStep DEF PartMoves
<1>10. [PartNext]_partVars => [SignatureNext]_signatureVars
  BY PartStep DEF PartMoves
<1> QED
  BY <1>1, <1>2, <1>3, <1>4, <1>5, <1>6, <1>7, <1>8, <1>9, <1>10, PTL
  DEF PartSpec, ReplaySpec, HealthSpec, WatchSpec, ConnectSpec, PagingSpec, ApiSpec, RouteSpec,
      GmailSpec, SignatureSpec

(* Whichever part of the control plane moves keeps its types.                *)
THEOREM PartTypeCorrectness == PartSpec => []PartTypeOK
<1>1. PartSpec => []( /\ ReplayTypeOK /\ HealthTypeOK /\ WatchTypeOK /\ ConnectTypeOK
                      /\ PagingTypeOK /\ ApiTypeOK /\ RouteTypeOK /\ GmailTypeOK
                      /\ SignatureTypeOK )
  BY PartsBehaveAsAlone, ReplayTypeCorrectness, HealthTypeCorrectness, WatchTypeCorrectness,
     ConnectTypeCorrectness, PagingTypeCorrectness, ApiTypeCorrectness, RouteTypeCorrectness,
     GmailTypeCorrectness, SignatureTypeCorrectness, PTL
<1>2. PartSpec => []PartIsChosen
  <2>1. PartInit => PartIsChosen
    BY DEF PartInit, PartIsChosen
  <2>2. PartIsChosen /\ [PartNext]_partVars => PartIsChosen'
    BY DEF PartIsChosen, PartNext, UnchangedBut, partVars
  <2> QED
    BY <2>1, <2>2, PTL DEF PartSpec
<1>3. /\ ReplayTypeOK /\ HealthTypeOK /\ WatchTypeOK /\ ConnectTypeOK /\ PagingTypeOK
      /\ ApiTypeOK /\ RouteTypeOK /\ GmailTypeOK /\ SignatureTypeOK /\ PartIsChosen
      => PartTypeOK
  BY DEF PartTypeOK, PartIsChosen
<1> QED
  BY <1>1, <1>2, <1>3, PTL

=============================================================================
