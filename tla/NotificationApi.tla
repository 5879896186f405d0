---------------------------- MODULE NotificationApi ----------------------------
(***************************************************************************)
(* notification_api with what stands behind it: a request for email, sms   *)
(* or push goes through Kafka to the render stage, one for a websocket is  *)
(* answered by the API itself.  The two share no state, as the ids of      *)
(* their requests differ, so a behaviour is about requests of one kind.    *)
(***************************************************************************)
EXTENDS NotificationRender, InstantNotifications

VARIABLE channel \* NotificationRequest.channel, as far as the ways differ

apiVars == <<channel, vars, instantVars>>

ApiTypeOK == TypeOK /\ InstantTypeOK /\ channel \in {"kafka", "websocket"}

ApiInit ==
  /\ channel \in {"kafka", "websocket"}
  /\ Init /\ InstantInit
  /\ channel = "kafka" => content = "text" \* else it does not matter

ViaKafka  == channel = "kafka" /\ Next /\ UNCHANGED instantVars
ViaSocket == channel = "websocket" /\ InstantNext /\ UNCHANGED vars

ApiNext == (ViaKafka \/ ViaSocket) /\ UNCHANGED channel

ApiSpec == ApiInit /\ [][ApiNext]_apiVars
=============================================================================
