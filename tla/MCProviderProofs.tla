-------------------------- MODULE MCProviderProofs --------------------------
(***************************************************************************)
(* The parts of a provider taken together: what MCProvider's run checks on *)
(* one instance, for every value of the constants.                         *)
(***************************************************************************)
EXTENDS MCProvider, NativeSessionProofs, ProviderProofs

-----------------------------------------------------------------------------
(* A step of one part leaves the others alone, so that each part makes     *)
(* only steps of its own.                                                  *)
LEMMA ProviderProjects ==
  [ProviderNext]_<<part, TaskVars, TicketVars, BackendVars, StartVars>> =>
    /\ [Next]_vars /\ [SlNext]_SlVars /\ [DaNext]_DaVars /\ [DtNext]_DtVars
    /\ [BkNext]_BkVars /\ [BsNext]_BsVars /\ [StNext]_StVars
    /\ [RcNext]_RcVars /\ [KrNext]_KrVars
<1>1. UNCHANGED TaskVars => UNCHANGED <<vars, SlVars>>
  BY DEF TaskVars
<1>2. UNCHANGED TicketVars => UNCHANGED <<DaVars, DtVars>>
  BY DEF TicketVars
<1>3. UNCHANGED BackendVars => UNCHANGED <<BkVars, BsVars, StVars>>
  BY DEF BackendVars
<1>4. UNCHANGED StartVars => UNCHANGED <<RcVars, KrVars>>
  BY DEF StartVars
<1>5. CASE UNCHANGED <<part, TaskVars, TicketVars, BackendVars, StartVars>>
  BY <1>1, <1>2, <1>3, <1>4, <1>5
<1>6. CASE Sessions
  BY <1>2, <1>3, <1>4, <1>6 DEF Sessions
<1>7. CASE Lifecycle
  BY <1>2, <1>3, <1>4, <1>7 DEF Lifecycle
<1>8. CASE Dispatch
  BY <1>1, <1>3, <1>4, <1>8 DEF Dispatch
<1>9. CASE Trust
  BY <1>1, <1>3, <1>4, <1>9 DEF Trust
<1>10. CASE BackCalls
  BY <1>1, <1>2, <1>4, <1>10 DEF BackCalls
<1>11. CASE Streaming
  BY <1>1, <1>2, <1>4, <1>11 DEF Streaming
<1>12. CASE Stability
  BY <1>1, <1>2, <1>4, <1>12 DEF Stability
<1>13. CASE Reach
  BY <1>1, <1>2, <1>3, <1>13 DEF Reach
<1>14. CASE Keys
  BY <1>1, <1>2, <1>3, <1>14 DEF Keys
<1>15. QED
  BY <1>5, <1>6, <1>7, <1>8, <1>9, <1>10, <1>11, <1>12, <1>13, <1>14
     DEF ProviderNext

(* A behaviour of the sum is one of each part.                             *)
LEMMA ProviderRuns ==
  ProviderSpec =>
    /\ Spec
    /\ BkInit /\ [][BkNext]_BkVars
    /\ SlSpec /\ DaSpec /\ DtSpec
    /\ BsSpec /\ StSpec /\ RcSpec /\ KrSpec
<1>1. ProviderInit =>
        /\ Init /\ SlInit /\ DaInit /\ DtInit
        /\ BkInit /\ BsInit /\ StInit /\ RcInit /\ KrInit
  BY DEF ProviderInit
<1>2. QED
  BY <1>1, ProviderProjects, PTL
     DEF ProviderSpec, Spec, SlSpec, DaSpec, DtSpec, BsSpec, StSpec, RcSpec, KrSpec

(* Whatever part runs, the states of all are as described.                 *)
THEOREM ProviderKeepsTypes == ProviderSpec => []ProviderTypes
<1>1. ProviderSpec => [](TypeOK /\ SlTypeOK /\ DaTypeOK /\ DtTypeOK)
  BY ProviderRuns, TypeCorrect, SlTypes, DaTypes, DtTypes, PTL
<1>2. ProviderSpec => [](BkTypeOK /\ BsTypeOK /\ StTypeOK /\ RcTypeOK /\ KrTypeOK)
  BY ProviderRuns, BkKept, BsTypes, StTypes, RcTypes, KrTypes, PTL
<1>3. QED
  BY <1>1, <1>2, PTL DEF ProviderTypes

(* The safety properties of the parts hold in the composition: sessions,   *)
(* tasks, tickets, trust, cancels, streams, routes and keys.               *)
THEOREM ProviderIsSafe ==
  ProviderSpec =>
    [](/\ GateBalanced /\ AnswersMatched /\ StreamsApart
       /\ SlOnceWithoutGap /\ DaRedeemedOnce /\ DtHighWater
       /\ BkCancelHonest /\ BsNothingLost
       /\ RcLastResort /\ KrInStep)
BY ProviderRuns, GateIsBalanced, AnswersCorrespond, StreamsStayApart, SlOnce, DaOnce, DtHighWaterHolds, BkKept, BsNothingGetsLost,
   RcLastResortHolds, KrKeysInStep, PTL

(* The store keeps TaskLife's promise and a drain is ended by time only,   *)
(* in the composition.                                                     *)
THEOREM ProviderKeepsPromises == ProviderSpec => SlKeepsPromise /\ StHoldsDrain
BY ProviderRuns, SlImplementsLife, StDrainHeld, PTL
=============================================================================
